----------------------------- MODULE ConsoleRules -----------------------------
(***************************************************************************)
(* The runtime's configuration: the rules of the detection middleware's    *)
(* file block, the edits made in the console on top of them, and the       *)
(* settings in force.  Traefik builds the detector and the console in any  *)
(* order and again on every reload (acquireRuntime, under registryMu); the *)
(* console edits (setOverrides, under rt.mu); with Redis the janitor       *)
(* adopts the edits of other replicas (refreshOverrides, syncOverrides).   *)
(* The two mutexes are different, so the settings are read and published   *)
(* in separate steps.                                                      *)
(*                                                                         *)
(* Saving an edit always succeeds here; what a store does with it is in    *)
(* FileStore and RedisReplicas.  The ban list, the notifier and the other  *)
(* things a reload rebuilds are left out.                                  *)
(***************************************************************************)
EXTENDS Integers, FiniteSets, Functions

CONSTANTS
    Sections,      \* the editable sections of the configuration
    Values,        \* what a section can say
    Invalid,       \* the rule sets Config.parse refuses
    Deployments,   \* [rules, backend, console]: the file's rules and its store.backend
                   \* ("memory", "file" or "redis"), and whether the console is a
                   \* middleware of its own
    Foreign,       \* whether other replicas may run another build
    Blocks,        \* bound on the versions of the console's own block
    MaxReloads,    \* bound on the changes of the detector's block
    MaxSwitches,   \* bound on those that change store.backend to redis
    MaxEdits,      \* bound on the edits, of all replicas together
    MaxRestarts    \* bound on the restarts of Traefik

Rules    == [Sections -> Values]
Backends == {"memory", "file", "redis"}

ASSUME RulesAssumption ==
    /\ Invalid \subseteq Rules /\ Rules \ Invalid # {}
    /\ Deployments \subseteq [rules : Rules \ Invalid, backend : Backends, console : BOOLEAN]
    /\ Foreign \in BOOLEAN
    /\ Blocks \in Nat \ {0} /\ MaxReloads \in Nat /\ MaxSwitches \in Nat
    /\ MaxEdits \in Nat /\ MaxRestarts \in Nat

VARIABLES
    file,       \* the detector's block: its rules and its store.backend
    block,      \* the version of the console's block; 0: it is no middleware of its own
    reloads, switches, restarts,
    edits,      \* how many edits were made: the stamp of the last one
    persisted,  \* what a backend keeps across restarts: at most one rule set
    exists,     \* the runtime is registered
    base,       \* rt.baseConfig, as a set of at most one
    detectFP, uiFP, \* the blocks already applied
    loaded,     \* rt.overridesLoaded
    overrides,  \* rt.overrides
    backend,    \* the live store
    stored,     \* the overrides the live store has in memory
    effective,  \* the settings in force: rules, and the console's block
    build,      \* acquireRuntime under way
    mu,         \* the holder of rt.mu
    tick,       \* the janitor's look at the shared rules
    refused,    \* history: stamps of saved edits the startup refused
    outdated,   \* history: the rules in force were made from others than those they replaced
    latest      \* history: the edits last made here, adopted or saved before a restart; a
                \* set of at most one, empty once another replica has saved others

rulesVars == <<file, block, reloads, switches, restarts, edits, persisted, exists, base,
               detectFP, uiFP, loaded, overrides, backend, stored, effective, build, mu,
               tick, refused, outdated, latest>>

world   == <<file, block, reloads, switches, restarts>>
applied == <<detectFP, uiFP>>
annals  == <<refused, outdated, latest>>

-----------------------------------------------------------------------------
(* Rule sets and edits. *)

NoRules   == {}
NoEdit    == [s \in {} |-> 0]
Reverted  == [edit |-> NoEdit, stamp |-> 0, foreign |-> FALSE]
Free      == [by |-> "nobody"]
Rest      == [at |-> "rest"]

Empty(o)  == DOMAIN o.edit = {}

\* sameOverrideStamp
SameStamp(a, b) == \/ Empty(a) /\ Empty(b)
                   \/ ~Empty(a) /\ ~Empty(b) /\ a.stamp = b.stamp

\* applyOverrides: a section is the console's or the file's as a whole.
Layered(rules, o) == [s \in Sections |-> IF s \in DOMAIN o.edit THEN o.edit[s] ELSE rules[s]]

\* prune: the sections that say what the file says stay the file's.
Pruned(submitted, rules) ==
    Restrict(submitted, {s \in Sections : submitted[s] # rules[s]})

\* rebuildLocked succeeds.
Rebuilds(o) == \E rules \in base : Layered(rules, o) \notin Invalid

Rebuilt(o) == Layered(CHOOSE rules \in base : TRUE, o)

\* A detector without an admin block of its own inherits the console's.
OwnBlock == IF block = 0 THEN 1 ELSE 0
InheritAdmin == IF OwnBlock # 0 THEN OwnBlock ELSE effective.admin

\* The rules that are to be in force: the file's alone if the edits do not parse with them.
InEffect(rules, o) == IF Layered(rules, o) \in Invalid THEN rules ELSE Layered(rules, o)

\* What a new store finds.
Found(b) == IF b # "memory" /\ persisted[b] # {} THEN CHOOSE o \in persisted[b] : TRUE
            ELSE Reverted

-----------------------------------------------------------------------------
(* acquireRuntime. *)

\* loadStoredOverridesLocked with these file rules takes up what is stored.
Restores(o, rules) == ~loaded /\ ~Empty(o) /\ ~o.foreign /\ Layered(rules, o) \notin Invalid

\* The detector is the first to be built: nobody else knows the runtime yet.
CreateByDetector ==
    /\ ~exists
    /\ exists' = TRUE
    /\ detectFP' = {file}
    /\ base' = {file.rules}
    /\ backend' = file.backend
    /\ stored' = Found(file.backend)
    /\ loaded' = TRUE
    /\ overrides' = IF Restores(stored', file.rules) THEN stored' ELSE Reverted
    /\ refused' = IF Empty(stored') \/ overrides' = stored' THEN {} ELSE {stored'.stamp}
    /\ effective' = [rules |-> Layered(file.rules, overrides'), admin |-> OwnBlock]
    /\ UNCHANGED <<world, edits, persisted, uiFP, build, mu, tick, outdated, latest>>

\* Mutant of CreateByConsole: the one attempt to restore edits is used up.
CreateByConsoleLoads ==
    /\ ~exists /\ block > 0
    /\ exists' = TRUE
    /\ uiFP' = block
    /\ backend' = "memory"
    /\ stored' = Reverted
    /\ effective' = [rules |-> [s \in Sections |-> CHOOSE v \in Values : TRUE], admin |-> block]
    /\ loaded' = TRUE
    /\ UNCHANGED <<world, edits, persisted, detectFP, base, overrides, build, mu, tick, annals>>

\* The console is: no store block, no rules of the file, nothing to restore yet.
\* Its rules are those of an empty block.
CreateByConsole ==
    /\ ~exists /\ block > 0
    /\ exists' = TRUE
    /\ uiFP' = block
    /\ backend' = "memory"
    /\ stored' = Reverted
    /\ effective' = [rules |-> [s \in Sections |-> CHOOSE v \in Values : TRUE], admin |-> block]
    /\ UNCHANGED <<world, edits, persisted, detectFP, base, loaded, overrides, build, mu, tick,
                   annals>>

\* The console is built or reloaded: it reads the settings in force ...
ConsoleReads ==
    /\ exists /\ build = Rest /\ block > 0 /\ uiFP # block
    /\ build' = [at |-> "console", rules |-> effective.rules]
    /\ UNCHANGED <<world, edits, persisted, exists, base, applied, loaded, overrides, backend,
                   stored, effective, mu, tick, annals>>

\* ... and publishes them with its own block.
ConsolePublishes ==
    /\ build.at = "console"
    /\ uiFP' = block
    /\ effective' = [rules |-> build.rules, admin |-> block]
    /\ build' = Rest
    /\ outdated' = (outdated \/ build.rules # effective.rules)
    /\ UNCHANGED <<world, edits, persisted, exists, base, detectFP, loaded, overrides, backend,
                   stored, mu, tick, refused, latest>>

\* The detector is built or reloaded: a changed backend is opened, ...
DetectorReads ==
    /\ exists /\ build = Rest /\ detectFP # {file}
    /\ build' = [at |-> "detector", rules |-> file.rules, admin |-> InheritAdmin]
    /\ backend' = file.backend
    /\ stored' = IF backend = file.backend THEN stored ELSE Found(file.backend)
    /\ UNCHANGED <<world, edits, persisted, exists, base, applied, loaded, overrides, effective,
                   mu, tick, annals>>

\* ... the file's own rules are published ...
DetectorPublishes ==
    /\ build.at = "detector"
    /\ detectFP' = {file}
    /\ effective' = [rules |-> build.rules, admin |-> build.admin]
    /\ build' = [build EXCEPT !.at = "relayer"]
    /\ outdated' = FALSE
    /\ UNCHANGED <<world, edits, persisted, exists, base, uiFP, loaded, overrides, backend,
                   stored, mu, tick, refused, latest>>

\* Mutant of Relayer: a new base starts without edits, but for the saved ones.
RelayerAnew ==
    /\ build.at = "relayer" /\ mu = Free
    /\ base' = {build.rules}
    /\ loaded' = TRUE
    /\ overrides' = IF Restores(stored, build.rules) THEN stored ELSE Reverted
    /\ refused' = IF loaded \/ Empty(stored) \/ overrides' = stored THEN refused ELSE {stored.stamp}
    /\ IF ~Empty(overrides') /\ Layered(build.rules, overrides') \notin Invalid
       THEN /\ effective' = [rules |-> Layered(build.rules, overrides'), admin |-> InheritAdmin]
            /\ outdated' = FALSE
       ELSE UNCHANGED <<effective, outdated>>
    /\ build' = Rest
    /\ UNCHANGED <<world, edits, persisted, exists, applied, backend, stored, mu, tick, latest>>

\* ... and then, under rt.mu, they become the base and the console's edits, or the
\* saved ones, are layered on them if they still parse.  Otherwise nothing is
\* published, not even if an edit was since the file's rules were.
Relayer ==
    /\ build.at = "relayer" /\ mu = Free
    /\ base' = {build.rules}
    /\ loaded' = TRUE
    /\ overrides' = IF Restores(stored, build.rules) THEN stored ELSE overrides
    /\ refused' = IF loaded \/ Empty(stored) \/ overrides' = stored THEN refused ELSE {stored.stamp}
    /\ IF ~Empty(overrides') /\ Layered(build.rules, overrides') \notin Invalid
       THEN /\ effective' = [rules |-> Layered(build.rules, overrides'), admin |-> InheritAdmin]
            /\ outdated' = FALSE
       ELSE UNCHANGED <<effective, outdated>>
    /\ build' = Rest
    /\ UNCHANGED <<world, edits, persisted, exists, applied, backend, stored, mu, tick, latest>>

-----------------------------------------------------------------------------
(* setOverrides, and syncOverrides once it holds rt.mu. *)

\* rt.mu is taken and the settings are rebuilt for these overrides.
Holds(by, o) == mu' = [by |-> by, next |-> o, rules |-> Rebuilt(o), admin |-> InheritAdmin]

\* The console saves the whole editable configuration; a revert saves the file's.
\* What does not parse changes nothing.
Edit(submitted) ==
    /\ exists /\ effective.admin # 0 /\ mu = Free /\ edits < MaxEdits
    /\ \E rules \in base :
          LET pruned == Pruned(submitted, rules)
              o      == IF DOMAIN pruned = {} THEN Reverted
                        ELSE [edit |-> pruned, stamp |-> edits + 1, foreign |-> FALSE]
          IN  Rebuilds(o) /\ Holds("set", o)
    /\ edits' = edits + 1
    /\ UNCHANGED <<world, persisted, exists, base, applied, loaded, overrides, backend, stored,
                   effective, build, tick, annals>>

Publish ==
    /\ mu.by \in {"set", "sync"}
    /\ overrides' = mu.next
    /\ effective' = [rules |-> mu.rules, admin |-> mu.admin]
    /\ mu' = IF mu.by = "set" THEN [by |-> "save", next |-> mu.next] ELSE Free
    /\ outdated' = (build.at = "relayer")
    /\ latest' = IF mu.by = "sync" /\ persisted.redis = {} THEN latest ELSE {mu.next}
    /\ UNCHANGED <<world, edits, persisted, exists, base, applied, loaded, backend, stored,
                   build, tick, refused>>

\* Into the live store, whichever that is by now, and from there to disk or Redis.
Save ==
    /\ mu.by = "save"
    /\ stored' = mu.next
    /\ persisted' = IF backend = "memory" THEN persisted
                    ELSE [persisted EXCEPT ![backend] = {mu.next}]
    /\ mu' = Free
    /\ UNCHANGED <<world, edits, exists, base, applied, loaded, overrides, backend, effective,
                   build, tick, annals>>

-----------------------------------------------------------------------------
(* The janitor, with Redis. *)

\* refreshOverrides: GET ...
Get ==
    /\ exists /\ tick = Rest /\ backend = "redis"
    /\ tick' = [at |-> "got", reply |-> persisted.redis]
    /\ UNCHANGED <<world, edits, persisted, exists, base, applied, loaded, overrides, backend,
                   stored, effective, build, mu, annals>>

\* Mutant of Received: null is decoded like any other rule set.
ReceivedAsSet ==
    { IF Empty(o) THEN [o EXCEPT !.foreign = TRUE] ELSE o : o \in tick.reply }

\* What a reply says: nothing, a revert (null), or a rule set.
Received == tick.reply

\* ... and into the local copy.
Receive ==
    /\ tick.at = "got"
    /\ stored' = IF backend = "redis" /\ Received # {} THEN CHOOSE o \in Received : TRUE
                 ELSE stored
    /\ tick' = [at |-> "sync"]
    /\ UNCHANGED <<world, edits, persisted, exists, base, applied, loaded, overrides, backend,
                   effective, build, mu, annals>>

\* syncOverrides reads the store before it takes rt.mu.
SyncReads ==
    /\ tick.at = "sync"
    /\ tick' = IF backend = "redis" THEN [at |-> "read", value |-> stored] ELSE Rest
    /\ UNCHANGED <<world, edits, persisted, exists, base, applied, loaded, overrides, backend,
                   stored, effective, build, mu, annals>>

Sync ==
    /\ tick.at = "read" /\ mu = Free
    /\ IF SameStamp(overrides, tick.value) \/ tick.value.foreign \/ ~Rebuilds(tick.value)
       THEN UNCHANGED mu
       ELSE Holds("sync", tick.value)
    /\ tick' = Rest
    /\ UNCHANGED <<world, edits, persisted, exists, base, applied, loaded, overrides, backend,
                   stored, effective, build, annals>>

-----------------------------------------------------------------------------
(* The world around. *)

\* Another replica saves rules or reverts them; it may be of another build.
Elsewhere(o) ==
    /\ edits < MaxEdits
    /\ edits' = edits + 1
    /\ persisted' = [persisted EXCEPT !.redis = {o}]
    /\ latest' = {}
    /\ UNCHANGED <<world, exists, base, applied, loaded, overrides, backend, stored, effective,
                   build, mu, tick, refused, outdated>>

\* The detector's block changes.  Traefik builds from one file at a time.
EditFile(rules, b) ==
    /\ reloads < MaxReloads /\ build = Rest
    /\ b = file.backend \/ (b = "redis" /\ switches < MaxSwitches)
    /\ file' = [rules |-> rules, backend |-> b]
    /\ reloads' = reloads + 1
    /\ switches' = IF b = file.backend THEN switches ELSE switches + 1
    /\ UNCHANGED <<block, restarts, edits, persisted, exists, base, applied, loaded, overrides,
                   backend, stored, effective, build, mu, tick, annals>>

EditBlock ==
    /\ block \in 1..(Blocks - 1) /\ build = Rest
    /\ block' = block + 1
    /\ UNCHANGED <<file, reloads, switches, restarts, edits, persisted, exists, base, applied,
                   loaded, overrides, backend, stored, effective, build, mu, tick, annals>>

Fresh ==
    /\ exists' = FALSE /\ base' = NoRules /\ detectFP' = {} /\ uiFP' = 0
    /\ loaded' = FALSE /\ overrides' = Reverted /\ backend' = "memory" /\ stored' = Reverted
    /\ effective' = [rules |-> [s \in Sections |-> CHOOSE v \in Values : TRUE], admin |-> 0]
    /\ build' = Rest /\ mu' = Free /\ tick' = Rest /\ refused' = {} /\ outdated' = FALSE

Restart ==
    /\ exists /\ restarts < MaxRestarts
    /\ restarts' = restarts + 1
    /\ Fresh
    /\ latest' = IF file.backend = "memory" THEN {} ELSE persisted[file.backend]
    /\ UNCHANGED <<file, block, reloads, switches, edits, persisted>>

-----------------------------------------------------------------------------

RulesInit ==
    /\ \E d \in Deployments :
          /\ file = [rules |-> d.rules, backend |-> d.backend]
          /\ block = IF d.console THEN 1 ELSE 0
    /\ reloads = 0 /\ switches = 0 /\ restarts = 0 /\ edits = 0
    /\ persisted = [b \in {"file", "redis"} |-> {}]
    /\ exists = FALSE /\ base = NoRules /\ detectFP = {} /\ uiFP = 0
    /\ loaded = FALSE /\ overrides = Reverted /\ backend = "memory" /\ stored = Reverted
    /\ effective = [rules |-> [s \in Sections |-> CHOOSE v \in Values : TRUE], admin |-> 0]
    /\ build = Rest /\ mu = Free /\ tick = Rest
    /\ refused = {} /\ outdated = FALSE /\ latest = {}

AcquireRuntime ==
    \/ CreateByDetector \/ CreateByConsole
    \/ ConsoleReads \/ ConsolePublishes
    \/ DetectorReads \/ DetectorPublishes \/ Relayer

JanitorTick == Get \/ Receive \/ SyncReads \/ Sync

\* The edits another replica may save: one section, or a revert.
Shared ==
    {[edit |-> [s \in {t} |-> v], stamp |-> edits + 1, foreign |-> f] :
        t \in Sections, v \in Values, f \in {Foreign, FALSE}} \cup {Reverted}

RulesNext ==
    \/ AcquireRuntime
    \/ \E submitted \in Rules : Edit(submitted)
    \/ Publish \/ Save
    \/ JanitorTick
    \/ file.backend = "redis" /\ \E o \in Shared : Elsewhere(o)
    \/ \E rules \in Rules \ Invalid, b \in Backends : EditFile(rules, b)
    \/ EditBlock
    \/ Restart

\* Traefik builds what is configured, an edit that began is completed, and the
\* janitor runs on a ticker.
RulesFairness ==
    /\ WF_rulesVars(AcquireRuntime)
    /\ WF_rulesVars(Publish \/ Save)
    /\ WF_rulesVars(JanitorTick)

RulesSpec == RulesInit /\ [][RulesNext]_rulesVars /\ RulesFairness

-----------------------------------------------------------------------------
(* Properties. *)

\* Nothing is being built, edited or adopted.
Settled == build = Rest /\ mu = Free /\ tick = Rest /\ detectFP = {file}

\* A reload re-layers the console's edits rather than discarding them: whatever
\* reloads, edits, adoptions and restarts interleave, the rules in force are in the end
\* the edits on top of the file, or the file's alone if they do not parse together; and
\* the edits are the last ones made here or adopted, unless the startup refused them.
\* There is one way to lose them: a reload that moves to a Redis nobody has saved rules
\* in, whose nothing the janitor then adopts as a revert.  And two races of
\* acquireRuntime end the layering: the console is built from rules that are replaced
\* meanwhile, as it reads and publishes without rt.mu; or an edit made for the old file
\* is published between the new file's rules and a re-layering that finds nothing to
\* layer.
EditsStayInForce ==
    Settled =>
        /\ ~outdated => effective.rules = InEffect(file.rules, overrides)
        /\ \A e \in latest :
              \/ SameStamp(overrides, e)
              \/ e.stamp \in refused
              \/ backend = "redis" /\ persisted.redis = {}

\* The edits in force are the saved ones, so a restart brings them back in whatever
\* order Traefik builds the middlewares, unless they were refused.
SavedEditsAreRestored ==
    Settled /\ backend = "file" =>
        \/ SameStamp(overrides, stored) /\ persisted.file \subseteq {stored}
        \/ stored.stamp \in refused

\* With Redis every replica comes to run the shared rules, reverts included, unless
\* they are of another build or do not parse here.
RulesConverge ==
    (<>[][edits' = edits /\ file' = file /\ restarts' = restarts]_rulesVars) =>
        <>[](\A o \in persisted.redis :
                o.foreign \/ SameStamp(overrides, o) \/ Layered(file.rules, o) \in Invalid)
=============================================================================
