--------------------------- MODULE Configuration ---------------------------
(***************************************************************************)
(* What the agent is told, and where that was set: internal/scoped and its *)
(* store, the instruction and setting catalogues resolved through it, the  *)
(* operator's edits (promptconfig), the defaults a starting worker         *)
(* publishes, and the loops that resolve once and carry the answer across  *)
(* their passes.                                                           *)
(*                                                                         *)
(* Writers are the connections that write: operators' edits and workers    *)
(* starting up, each one transaction taken apart at its statements.  Units *)
(* are the loops.  A text is a member of a small set; validity is decided  *)
(* where the text is saved, so the texts here are the valid ones.  An      *)
(* instruction and its model, and a setting, are one Key each: they share  *)
(* the store and the rule.                                                 *)
(***************************************************************************)
EXTENDS Naturals, Sequences, FiniteSets

CONSTANTS
    Keys, Wordings,
    Builds,           \* the builds that workers run, old and new
    Ships(_, _),      \* Ships(build, key): the text a build ships
    Writers, Units,
    Directory,        \* a linked worktree, and
    Repository,       \* the repository it belongs to
    MaxVersions,      \* bound: versions stored in all
    MaxPasses         \* bound: passes of a loop

Free == "free"        \* held by nobody

ASSUME WritersAreFinite == IsFiniteSet(Writers) /\ IsFiniteSet(Units)
ASSUME WritersHoldLocks == Free \notin Writers
ASSUME ShipsText == \A b \in Builds, k \in Keys : Ships(b, k) \in Wordings
ASSUME BoundsArePositive == MaxVersions \in Nat \ {0} /\ MaxPasses \in Nat \ {0}
ASSUME PlacesDiffer == Directory # Repository

Global == "global"
Factory == "factory"
Scopes == {Directory, Repository, Global, Factory}
Unknown == ""         \* the location probe could not tell

(* The order a value is looked for: the place, what it belongs to, the     *)
(* installation, the build.                                                *)
Chain(directory, repository) ==
    (IF directory # Unknown THEN <<directory>> ELSE <<>>)
    \o (IF repository \notin {Unknown, directory} THEN <<repository>> ELSE <<>>)
    \o <<Global, Factory>>

(* Where work may run: the worktree, an ordinary checkout, nowhere known. *)
Places == {Chain(Directory, Repository), Chain(Repository, Unknown), Chain(Unknown, Unknown)}

VARIABLES
    values,      \* scoped_values: the versions of each key and scope, append-only
    pointers,    \* scoped_pointers: the version in force, 0 for none
    lock,        \* the advisory lock of each key, by its holder
    writers,     \* the transactions
    published,   \* builds whose workers are past publication, and take work
    units,       \* the loops
    records      \* the provenance in the execution rows, and the text it stood for

configurationVars == <<values, pointers, lock, writers, published, units, records>>

Rest == [step |-> "rest", build |-> "none", key |-> "none", scope |-> Global,
         text |-> "none", version |-> 0, left |-> {}]
Fresh == [pass |-> 0, chain |-> <<>>, build |-> "none", resolved |-> <<>>]

-----------------------------------------------------------------------------
(* Resolution: the first scope of the chain with a value, or the text the  *)
(* build ships, as version 0.                                              *)

Stored(k, s) == pointers[k][s] > 0
Winner(k, chain) == LET with == {i \in DOMAIN chain : Stored(k, chain[i])}
                    IN IF with = {} THEN Unknown ELSE chain[CHOOSE i \in with : \A j \in with : i <= j]

resolve(k, chain, build) ==
    LET s == Winner(k, chain)
    IN IF s = Unknown
       THEN [key |-> k, scope |-> Factory, version |-> 0, text |-> Ships(build, k)]
       ELSE [key |-> k, scope |-> s, version |-> pointers[k][s], text |-> values[k][s][pointers[k][s]]]

Resolution(chain, build) == [k \in Keys |-> resolve(k, chain, build)]

-----------------------------------------------------------------------------
(* The write path: one transaction under the key's lock. *)

InitConfiguration ==
    /\ values = [k \in Keys |-> [s \in Scopes |-> <<>>]]
    /\ pointers = [k \in Keys |-> [s \in Scopes |-> 0]]
    /\ lock = [k \in Keys |-> Free]
    /\ writers = [w \in Writers |-> Rest]
    /\ published = {}
    /\ units = [u \in Units |-> Fresh]
    /\ records = {}

(* An operator saves or resets at the scope addressed: global or a place,  *)
(* never the factory.                                                      *)
Edit(w) ==
    /\ writers[w].step = "rest"
    /\ \E k \in Keys, s \in Scopes \ {Factory}, t \in Wordings, reset \in BOOLEAN :
          writers' = [writers EXCEPT ![w] =
             [Rest EXCEPT !.step = IF reset THEN "lockReset" ELSE "lockSet",
                          !.key = k, !.scope = s, !.text = t]]
    /\ UNCHANGED <<values, pointers, lock, published, units, records>>

(* A worker starts: it publishes every key before it takes work. *)
StartWorker(w) ==
    /\ writers[w].step = "rest"
    /\ \E b \in Builds, k \in Keys :
          writers' = [writers EXCEPT ![w] =
             [Rest EXCEPT !.step = "lockPublish", !.build = b, !.key = k, !.scope = Factory,
                          !.text = Ships(b, k), !.left = Keys \ {k}]]
    /\ UNCHANGED <<values, pointers, lock, published, units, records>>

Afterwards(step) ==
    CASE step = "lockSet" -> "append" [] step = "lockReset" -> "reset" [] step = "lockPublish" -> "compare"

Unlocked(w) == UNCHANGED lock
TakeLock(w) == lock[writers[w].key] = Free /\ lock' = [lock EXCEPT ![writers[w].key] = w]

Lock(w) ==
    /\ writers[w].step \in {"lockSet", "lockReset", "lockPublish"}
    /\ TakeLock(w)
    /\ writers' = [writers EXCEPT ![w].step = Afterwards(@)]
    /\ UNCHANGED <<values, pointers, published, units, records>>

Release(w) == lock' = [k \in Keys |-> IF lock[k] = w THEN Free ELSE lock[k]]

(* The next key of a publication, or the end of the transaction's owner:   *)
(* with every key published the worker takes work.                         *)
Proceed(w) ==
    LET t == writers[w]
    IN IF t.left # {}
       THEN /\ \E k \in t.left : writers' = [writers EXCEPT ![w] =
                  [t EXCEPT !.step = "lockPublish", !.key = k, !.text = Ships(t.build, k),
                            !.left = @ \ {k}]]
            /\ UNCHANGED published
       ELSE /\ writers' = [writers EXCEPT ![w] = Rest]
            /\ published' = IF t.build # "none" THEN published \cup {t.build} ELSE published

(* PublishFactory writes only when what is published differs. *)
Compare(w) ==
    LET t == writers[w]
        same == Stored(t.key, Factory) /\ values[t.key][Factory][pointers[t.key][Factory]] = t.text
    IN /\ t.step = "compare"
       /\ IF same
          THEN Proceed(w) /\ Release(w)
          ELSE /\ writers' = [writers EXCEPT ![w].step = "append"]
               /\ UNCHANGED <<published, lock>>
       /\ UNCHANGED <<values, pointers, units, records>>

(* The version number comes from the rows themselves, pointed at or not. *)
NextVersion(k, s) == Len(values[k][s]) + 1
Rows == {row \in Keys \X Scopes \X (1 .. MaxVersions) : row[3] <= Len(values[row[1]][row[2]])}

AppendVersion(w) ==
    LET t == writers[w]
    IN /\ t.step = "append"
       /\ Cardinality(Rows) < MaxVersions
       /\ writers' = [writers EXCEPT ![w].step = "commit", ![w].version = NextVersion(t.key, t.scope)]
       /\ UNCHANGED <<values, pointers, lock, published, units, records>>

(* The row and the pointer become visible together.  A row of that number  *)
(* committed meanwhile is a unique violation, which fails the transaction. *)
Commit(w) ==
    LET t == writers[w]
    IN /\ t.step = "commit"
       /\ IF t.version = Len(values[t.key][t.scope]) + 1
          THEN /\ values' = [values EXCEPT ![t.key][t.scope] = Append(@, t.text)]
               /\ pointers' = [pointers EXCEPT ![t.key][t.scope] = t.version]
               /\ Proceed(w)
          ELSE /\ writers' = [writers EXCEPT ![w].step = "collided"]
               /\ UNCHANGED <<values, pointers, published>>
       /\ Release(w)
       /\ UNCHANGED <<units, records>>

(* Reset removes the pointer; the versions stay. *)
ForgetVersions(k, s) == values' = [values EXCEPT ![k][s] = <<>>]
KeepVersions(k, s) == UNCHANGED values

Reset(w) ==
    LET t == writers[w]
    IN /\ t.step = "reset"
       /\ pointers' = [pointers EXCEPT ![t.key][t.scope] = 0]
       /\ KeepVersions(t.key, t.scope)
       /\ Proceed(w) /\ Release(w)
       /\ UNCHANGED <<units, records>>

(* The connection or the process is lost: the transaction is rolled back,  *)
(* a worker that was publishing does not start.                            *)
Lose(w) ==
    /\ writers[w].step # "rest"
    /\ writers' = [writers EXCEPT ![w] = Rest]
    /\ Release(w)
    /\ UNCHANGED <<values, pointers, published, units, records>>

-----------------------------------------------------------------------------
(* The loops.  A unit runs on any worker that takes work, its first pass   *)
(* where the probe places it.                                              *)

StartUnit(u) ==
    /\ units[u].pass = 0
    /\ \E b \in published, chain \in Places :
          units' = [units EXCEPT ![u] = [Fresh EXCEPT !.pass = 1, !.chain = chain, !.build = b]]
    /\ UNCHANGED <<values, pointers, lock, writers, published, records>>

(* Ensure: what the unit already carries, or one read of the store. *)
EnsureEachPass(u) == Resolution(units[u].chain, units[u].build)
Ensure(u) == IF units[u].resolved # <<>> THEN units[u].resolved
                                         ELSE Resolution(units[u].chain, units[u].build)

(* A pass resolves, runs the agent under what it resolved, records which   *)
(* versions those were, and continues as new with them in its input, on    *)
(* whichever build picks it up.                                            *)
Pass(u) ==
    LET now == Ensure(u)
    IN /\ units[u].pass \in 1 .. MaxPasses
       /\ records' = records \cup {[unit |-> u, use |-> now[k]] : k \in Keys}
       /\ \E b \in published :
             units' = [units EXCEPT ![u].pass = @ + 1, ![u].resolved = now, ![u].build = b]
       /\ UNCHANGED <<values, pointers, lock, writers, published>>

NextConfiguration ==
    \/ \E w \in Writers :
          \/ Edit(w) \/ StartWorker(w) \/ Lock(w) \/ Compare(w)
          \/ AppendVersion(w) \/ Commit(w) \/ Reset(w) \/ Lose(w)
    \/ \E u \in Units : StartUnit(u) \/ Pass(u)

ConfigurationSpec == InitConfiguration /\ [][NextConfiguration]_configurationVars

-----------------------------------------------------------------------------
(* A pointer names a stored version, and the provenance an execution       *)
(* recorded (key, scope, version) reads back, for ever, as the very text   *)
(* that execution's agent was given: across edits, resets, publications    *)
(* and lost transactions.  Nothing runs under an unstored version 0.       *)
RecordedStaysReadable ==
    /\ \A k \in Keys, s \in Scopes : pointers[k][s] <= Len(values[k][s])
    /\ \A r \in records :
          LET versions == values[r.use.key][r.use.scope]
          IN r.use.version \in DOMAIN versions /\ versions[r.use.version] = r.use.text

(* Writers take turns: none fails because another wrote, and workers       *)
(* starting together publish a changed default once, so neighbouring       *)
(* factory versions differ.                                                *)
WritersTakeTurns ==
    /\ \A w \in Writers : writers[w].step # "collided"
    /\ \A k \in Keys : LET shipped == values[k][Factory]
                       IN \A i \in 1 .. Len(shipped) - 1 : shipped[i] # shipped[i + 1]

(* A loop runs under one version of each key from its first pass to its    *)
(* last, whatever is edited or published while it runs.                    *)
LoopRunsUnderOneVersion ==
    \A r, q \in records : r.unit = q.unit /\ r.use.key = q.use.key => r.use = q.use
=============================================================================
