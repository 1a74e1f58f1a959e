------------------------ MODULE ConfigurationProofs -------------------------
(***************************************************************************)
(* For any keys, texts, builds, writers and loops, and any bounds: what an *)
(* execution recorded it ran under reads back as what it was told, writers *)
(* take turns, and a loop runs under one version of each key.              *)
(***************************************************************************)
EXTENDS Configuration, SequenceTheorems, WellFoundedInduction, TLAPS

Locking == {"lockSet", "lockReset", "lockPublish"}
Inside  == {"append", "reset", "compare", "commit"}   \* under the key's lock
Under   == Locking \cup Inside

Transactions ==
  [step : Under \cup {"rest", "collided"}, build : Builds \cup {"none"}, key : Keys \cup {"none"},
   scope : Scopes, text : Wordings \cup {"none"}, version : Nat, left : SUBSET Keys]

\* What the store and the transactions hold.
StoreTypes ==
  /\ values \in [Keys -> [Scopes -> Seq(Wordings)]]
  /\ pointers \in [Keys -> [Scopes -> Nat]]
  /\ lock \in [Keys -> Writers \cup {Free}]
  /\ writers \in [Writers -> Transactions]
  /\ \A w \in Writers :
       writers[w].step \in Under => writers[w].key \in Keys /\ writers[w].text \in Wordings

Pointed == \A k \in Keys, s \in Scopes : pointers[k][s] <= Len(values[k][s])

\* A transaction that has read what it writes after holds the lock until it
\* ends, so the number it took is still the next one when it commits.
HoldsItsKey ==
  \A w \in Writers :
    /\ writers[w].step \in Inside => lock[writers[w].key] = w
    /\ writers[w].step = "commit" =>
         writers[w].version = Len(values[writers[w].key][writers[w].scope]) + 1
    /\ writers[w].step # "collided"

\* The factory scope is written by publications alone and never reset.
OnlyPublished ==
  \A w \in Writers :
    /\ writers[w].step \in {"lockSet", "lockReset", "reset"} => writers[w].scope # Factory
    /\ writers[w].step \in {"lockPublish", "compare"} => writers[w].scope = Factory
    /\ writers[w].build # "none" => writers[w].scope = Factory
    /\ writers[w].left # {} => writers[w].scope = Factory /\ writers[w].build \in Builds

\* So its pointer is at its last version, which what is about to be appended
\* differs from, as every version does from the one before it.
Differs(shipped, text) == shipped = <<>> \/ shipped[Len(shipped)] # text

FactoryGrows ==
  /\ \A k \in Keys : pointers[k][Factory] = Len(values[k][Factory])
  /\ \A w \in Writers :
       writers[w].step \in {"append", "commit"} /\ writers[w].scope = Factory =>
         Differs(values[writers[w].key][Factory], writers[w].text)
  /\ \A k \in Keys :
       \A i \in 1 .. Len(values[k][Factory]) - 1 : values[k][Factory][i] # values[k][Factory][i + 1]

\* A worker takes work once it has published every key.
Published(k) == pointers[k][Factory] > 0

PublishesAll ==
  /\ \A w \in Writers : writers[w].build # "none" =>
       \A k \in Keys \ (writers[w].left \cup {writers[w].key}) : Published(k)
  /\ published # {} => \A k \in Keys : Published(k)

StoreInv == StoreTypes /\ Pointed /\ HoldsItsKey /\ OnlyPublished /\ FactoryGrows /\ PublishesAll

-----------------------------------------------------------------------------
LEMMA StoreStarts == InitConfiguration => StoreInv
<1>. SUFFICES ASSUME InitConfiguration PROVE StoreInv
  OBVIOUS
<1>. USE DEF InitConfiguration
<1>0. Factory \in Scopes /\ Global \in Scopes
  BY DEF Scopes
<1>1. StoreTypes
  BY <1>0 DEF StoreTypes, Transactions, Rest, Under, Locking, Inside
<1>2. Pointed
  BY DEF Pointed
<1>3. HoldsItsKey
  BY DEF HoldsItsKey, Rest, Inside
<1>4. OnlyPublished
  BY DEF OnlyPublished, Rest
<1>5. FactoryGrows
  BY <1>0 DEF FactoryGrows, Rest
<1>6. PublishesAll
  BY DEF PublishesAll, Rest
<1>. QED BY <1>1, <1>2, <1>3, <1>4, <1>5, <1>6 DEF StoreInv

\* A transaction that begins: an operator's edit, or a publication.
LEMMA BeginKeeps ==
  ASSUME StoreInv, NEW w \in Writers, Edit(w) \/ StartWorker(w)
  PROVE  StoreInv'
<1>1. UNCHANGED <<values, pointers, lock, published>>
  BY DEF Edit, StartWorker
<1>2. PICK t \in Transactions :
        /\ writers' = [writers EXCEPT ![w] = t]
        /\ t.step \in Locking /\ t.key \in Keys /\ t.text \in Wordings
        /\ t.step # "lockPublish" => t.scope # Factory /\ t.build = "none" /\ t.left = {}
        /\ t.step = "lockPublish" => t.scope = Factory /\ t.build \in Builds
                                     /\ t.left = Keys \ {t.key}
  <2>1. CASE Edit(w)
    <3>1. PICK k \in Keys, s \in Scopes \ {Factory}, x \in Wordings, reset \in BOOLEAN :
            writers' = [writers EXCEPT ![w] =
              [Rest EXCEPT !.step = IF reset THEN "lockReset" ELSE "lockSet",
                           !.key = k, !.scope = s, !.text = x]]
      BY <2>1 DEF Edit
    <3>. DEFINE t == [Rest EXCEPT !.step = IF reset THEN "lockReset" ELSE "lockSet",
                                  !.key = k, !.scope = s, !.text = x]
    <3>2. t \in Transactions /\ t.step \in {"lockReset", "lockSet"} /\ t.key = k /\ t.text = x
          /\ t.scope = s /\ t.build = "none" /\ t.left = {}
      BY DEF Transactions, Rest, Under, Locking, Inside
    <3>. QED BY <3>1, <3>2 DEF Locking
  <2>2. CASE StartWorker(w)
    <3>1. PICK b \in Builds, k \in Keys :
            writers' = [writers EXCEPT ![w] =
              [Rest EXCEPT !.step = "lockPublish", !.build = b, !.key = k, !.scope = Factory,
                           !.text = Ships(b, k), !.left = Keys \ {k}]]
      BY <2>2 DEF StartWorker
    <3>. DEFINE t == [Rest EXCEPT !.step = "lockPublish", !.build = b, !.key = k,
                                  !.scope = Factory, !.text = Ships(b, k), !.left = Keys \ {k}]
    <3>2. t \in Transactions /\ t.step = "lockPublish" /\ t.key = k /\ t.text = Ships(b, k)
          /\ t.scope = Factory /\ t.build = b /\ t.left = Keys \ {k}
      BY ShipsText DEF Transactions, Rest, Under, Locking, Inside, Scopes
    <3>. QED BY <3>1, <3>2, ShipsText DEF Locking
  <2>. QED BY <2>1, <2>2
<1>3. StoreTypes'
  BY <1>1, <1>2 DEF StoreInv, StoreTypes
<1>4. Pointed'
  BY <1>1 DEF StoreInv, Pointed
<1>5. HoldsItsKey'
  BY <1>1, <1>2 DEF StoreInv, StoreTypes, HoldsItsKey, Locking, Inside
<1>6. OnlyPublished'
  BY <1>1, <1>2 DEF StoreInv, StoreTypes, OnlyPublished, Locking
<1>7. FactoryGrows'
  BY <1>1, <1>2 DEF StoreInv, StoreTypes, FactoryGrows, Locking
<1>8. PublishesAll'
  BY <1>1, <1>2 DEF StoreInv, StoreTypes, PublishesAll, Published, Locking
<1>. QED BY <1>3, <1>4, <1>5, <1>6, <1>7, <1>8 DEF StoreInv

\* The lock of the key is taken.
LEMMA LockKeeps ==
  ASSUME StoreInv, NEW w \in Writers, Lock(w)
  PROVE  StoreInv'
<1>. DEFINE after == [writers[w] EXCEPT !.step = Afterwards(@)]
<1>1. /\ UNCHANGED <<values, pointers, published>>
      /\ writers[w].step \in Locking /\ writers[w].key \in Keys /\ writers[w].text \in Wordings
      /\ lock[writers[w].key] = Free /\ lock' = [lock EXCEPT ![writers[w].key] = w]
      /\ writers' = [writers EXCEPT ![w].step = Afterwards(@)]
  BY DEF Lock, TakeLock, Locking, Under, StoreInv, StoreTypes
<1>2. /\ after \in Transactions
      /\ after.step = Afterwards(writers[w].step) /\ after.step \in {"append", "reset", "compare"}
      /\ after.key = writers[w].key /\ after.text = writers[w].text /\ after.scope = writers[w].scope
      /\ after.build = writers[w].build /\ after.left = writers[w].left
      /\ writers' = [writers EXCEPT ![w] = after]
  BY <1>1 DEF StoreInv, StoreTypes, Transactions, Locking, Inside, Under, Afterwards
<1>3. StoreTypes'
  BY <1>1, <1>2 DEF StoreInv, StoreTypes
<1>4. Pointed'
  BY <1>1 DEF StoreInv, Pointed
<1>5. HoldsItsKey'
  BY <1>1, <1>2, WritersHoldLocks DEF StoreInv, StoreTypes, HoldsItsKey, Under, Inside
<1>6. OnlyPublished'
  BY <1>1, <1>2 DEF StoreInv, StoreTypes, OnlyPublished, Locking, Afterwards
<1>7. FactoryGrows'
  BY <1>1, <1>2 DEF StoreInv, StoreTypes, FactoryGrows, OnlyPublished, Locking, Afterwards
<1>8. PublishesAll'
  BY <1>1, <1>2 DEF StoreInv, StoreTypes, PublishesAll, Published
<1>. QED BY <1>3, <1>4, <1>5, <1>6, <1>7, <1>8 DEF StoreInv

\* The version number is read under the lock.
LEMMA AppendKeeps ==
  ASSUME StoreInv, NEW w \in Writers, AppendVersion(w)
  PROVE  StoreInv'
<1>. DEFINE after == [writers[w] EXCEPT !.step = "commit",
                        !.version = NextVersion(writers[w].key, writers[w].scope)]
<1>1. /\ UNCHANGED <<values, pointers, lock, published>>
      /\ writers[w].step = "append" /\ writers[w].key \in Keys /\ writers[w].text \in Wordings
      /\ writers' = [writers EXCEPT ![w] = after]
  BY DEF AppendVersion, Under, Inside, StoreInv, StoreTypes
<1>2. NextVersion(writers[w].key, writers[w].scope) \in Nat
  BY <1>1 DEF NextVersion, StoreInv, StoreTypes, Transactions
<1>3. /\ after \in Transactions
      /\ after.step = "commit"
      /\ after.version = Len(values[writers[w].key][writers[w].scope]) + 1
      /\ after.key = writers[w].key /\ after.text = writers[w].text /\ after.scope = writers[w].scope
      /\ after.build = writers[w].build /\ after.left = writers[w].left
  BY <1>1, <1>2 DEF StoreInv, StoreTypes, Transactions, Inside, Under, NextVersion
<1>4. StoreTypes'
  BY <1>1, <1>3 DEF StoreInv, StoreTypes
<1>5. Pointed'
  BY <1>1 DEF StoreInv, Pointed
<1>6. HoldsItsKey'
  BY <1>1, <1>3 DEF StoreInv, StoreTypes, HoldsItsKey, Inside
<1>7. OnlyPublished'
  BY <1>1, <1>3 DEF StoreInv, StoreTypes, OnlyPublished
<1>8. FactoryGrows'
  BY <1>1, <1>3 DEF StoreInv, StoreTypes, FactoryGrows
<1>9. PublishesAll'
  BY <1>1, <1>3 DEF StoreInv, StoreTypes, PublishesAll, Published
<1>. QED BY <1>4, <1>5, <1>6, <1>7, <1>8, <1>9 DEF StoreInv

\* A transaction that is lost frees what it held.
LEMMA LoseKeeps ==
  ASSUME StoreInv, NEW w \in Writers, Lose(w)
  PROVE  StoreInv'
<1>1. /\ UNCHANGED <<values, pointers, published>>
      /\ writers' = [writers EXCEPT ![w] = Rest]
      /\ lock' = [k \in Keys |-> IF lock[k] = w THEN Free ELSE lock[k]]
  BY DEF Lose, Release
<1>2. Rest \in Transactions /\ Rest.step = "rest" /\ Rest.build = "none" /\ Rest.left = {}
  BY DEF Rest, Transactions, Scopes
<1>3. StoreTypes'
  BY <1>1, <1>2 DEF StoreInv, StoreTypes, Under, Locking, Inside
<1>4. Pointed'
  BY <1>1 DEF StoreInv, Pointed
<1>5. HoldsItsKey'
  BY <1>1, <1>2 DEF StoreInv, StoreTypes, HoldsItsKey, Inside, Under
<1>6. OnlyPublished'
  BY <1>1, <1>2 DEF StoreInv, StoreTypes, OnlyPublished
<1>7. FactoryGrows'
  BY <1>1, <1>2 DEF StoreInv, StoreTypes, FactoryGrows
<1>8. PublishesAll'
  BY <1>1, <1>2 DEF StoreInv, StoreTypes, PublishesAll, Published
<1>. QED BY <1>3, <1>4, <1>5, <1>6, <1>7, <1>8 DEF StoreInv

\* What a transaction does when its key is done: the next key, or the end.
LEMMA ProceedEffect ==
  ASSUME StoreInv, NEW w \in Writers, writers[w].step \in Inside, Proceed(w)
  PROVE  \E t \in Transactions :
           /\ writers' = [writers EXCEPT ![w] = t]
           /\ t.step = "rest" => t.build = "none" /\ t.left = {}
           /\ t.step # "rest" =>
                /\ t.step = "lockPublish" /\ t.scope = Factory /\ t.build \in Builds
                /\ t.key \in Keys /\ t.text \in Wordings
                /\ t.left \cup {t.key} = writers[w].left
                /\ t.build = writers[w].build
           /\ published' # published => writers[w].left = {} /\ writers[w].build # "none"
<1>. DEFINE t == writers[w]
<1>1. CASE t.left # {}
  <2>1. PICK k \in t.left :
          writers' = [writers EXCEPT ![w] =
            [t EXCEPT !.step = "lockPublish", !.key = k, !.text = Ships(t.build, k),
                      !.left = @ \ {k}]]
    BY <1>1 DEF Proceed
  <2>. DEFINE n == [t EXCEPT !.step = "lockPublish", !.key = k, !.text = Ships(t.build, k),
                             !.left = @ \ {k}]
  <2>2. t \in Transactions /\ t.scope = Factory /\ t.build \in Builds /\ k \in Keys
    BY <1>1 DEF StoreInv, StoreTypes, OnlyPublished, Transactions
  <2>3. Ships(t.build, k) \in Wordings
    BY <2>2, ShipsText
  <2>4. /\ n \in Transactions /\ n.step = "lockPublish" /\ n.scope = Factory
        /\ n.build = t.build /\ n.key = k /\ n.text = Ships(t.build, k) /\ n.left = t.left \ {k}
    BY <2>2, <2>3 DEF Transactions, Under, Locking
  <2>5. published' = published
    BY <1>1 DEF Proceed
  <2>6. n.left \cup {n.key} = t.left
    BY <2>4
  <2>. QED BY <2>1, <2>2, <2>3, <2>4, <2>5, <2>6
<1>2. CASE t.left = {}
  <2>1. writers' = [writers EXCEPT ![w] = Rest]
    BY <1>2 DEF Proceed
  <2>2. Rest \in Transactions /\ Rest.step = "rest" /\ Rest.build = "none" /\ Rest.left = {}
    BY DEF Rest, Transactions, Scopes
  <2>3. published' # published => t.build # "none"
    BY <1>2 DEF Proceed
  <2>. QED BY <1>2, <2>1, <2>2, <2>3
<1>. QED BY <1>1, <1>2

\* The turn ends: the next lock is not taken yet, and nothing is held.
LEMMA TurnEnds ==
  ASSUME StoreInv, NEW w \in Writers, NEW t \in Transactions, writers[w].step \in Inside,
         writers' = [writers EXCEPT ![w] = t], Release(w),
         t.step = "rest" => t.build = "none" /\ t.left = {},
         t.step # "rest" =>
           /\ t.step = "lockPublish" /\ t.scope = Factory /\ t.build \in Builds
           /\ t.key \in Keys /\ t.text \in Wordings
  PROVE  /\ lock' \in [Keys -> Writers \cup {Free}] /\ writers' \in [Writers -> Transactions]
         /\ \A v \in Writers :
              writers'[v].step \in Under => writers'[v].key \in Keys /\ writers'[v].text \in Wordings
         /\ \A v \in Writers :
              writers'[v].step \in Inside =>
                /\ v # w /\ writers'[v] = writers[v] /\ lock'[writers'[v].key] = v
                /\ writers[v].key # writers[w].key
         /\ \A v \in Writers : writers'[v].step # "collided"
         /\ OnlyPublished'
<1>1. lock' = [k \in Keys |-> IF lock[k] = w THEN Free ELSE lock[k]]
  BY DEF Release
<1>2. t.step \in {"rest", "lockPublish"}
  OBVIOUS
<1>3. lock' \in [Keys -> Writers \cup {Free}] /\ writers' \in [Writers -> Transactions]
  BY <1>1 DEF StoreInv, StoreTypes
<1>4. \A v \in Writers :
        writers'[v].step \in Under => writers'[v].key \in Keys /\ writers'[v].text \in Wordings
  BY <1>2 DEF StoreInv, StoreTypes, Under, Locking, Inside
<1>5. ASSUME NEW v \in Writers, writers'[v].step \in Inside
      PROVE  /\ v # w /\ writers'[v] = writers[v] /\ lock'[writers'[v].key] = v
             /\ writers[v].key # writers[w].key
  <2>1. v # w /\ writers'[v] = writers[v]
    BY <1>2, <1>5 DEF StoreInv, StoreTypes, Inside
  <2>2. /\ writers[v].key \in Keys /\ lock[writers[v].key] = v
        /\ lock[writers[w].key] = w
    BY <1>5, <2>1 DEF StoreInv, StoreTypes, HoldsItsKey, Under
  <2>. QED BY <1>1, <2>1, <2>2
<1>6. \A v \in Writers : writers'[v].step # "collided"
  BY <1>2 DEF StoreInv, StoreTypes, HoldsItsKey
<1>7. OnlyPublished'
  BY <1>2 DEF StoreInv, StoreTypes, OnlyPublished
<1>. QED BY <1>3, <1>4, <1>5, <1>6, <1>7

\* A publication that finds its text already in force.
LEMMA CompareKeeps ==
  ASSUME StoreInv, NEW w \in Writers, Compare(w)
  PROVE  StoreInv'
<1>. DEFINE k == writers[w].key
            same == Stored(k, Factory) /\ values[k][Factory][pointers[k][Factory]] = writers[w].text
<1>1. /\ writers[w].step = "compare" /\ writers[w].step \in Inside /\ k \in Keys
      /\ writers[w].scope = Factory /\ writers[w].text \in Wordings
      /\ UNCHANGED <<values, pointers>>
      /\ Factory \in Scopes
  BY DEF Compare, StoreInv, StoreTypes, OnlyPublished, Inside, Under, Scopes
<1>2. CASE same
  <2>1. Proceed(w) /\ Release(w)
    BY <1>2 DEF Compare
  <2>2. PICK t \in Transactions :
           /\ writers' = [writers EXCEPT ![w] = t]
           /\ t.step = "rest" => t.build = "none" /\ t.left = {}
           /\ t.step # "rest" =>
                /\ t.step = "lockPublish" /\ t.scope = Factory /\ t.build \in Builds
                /\ t.key \in Keys /\ t.text \in Wordings
                /\ t.left \cup {t.key} = writers[w].left
                /\ t.build = writers[w].build
           /\ published' # published => writers[w].left = {} /\ writers[w].build # "none"
    BY <1>1, <2>1, ProceedEffect
  <2>3. /\ lock' \in [Keys -> Writers \cup {Free}] /\ writers' \in [Writers -> Transactions]
        /\ \A v \in Writers :
              writers'[v].step \in Under => writers'[v].key \in Keys /\ writers'[v].text \in Wordings
        /\ \A v \in Writers :
              writers'[v].step \in Inside =>
                /\ v # w /\ writers'[v] = writers[v] /\ lock'[writers'[v].key] = v
                /\ writers[v].key # writers[w].key
        /\ \A v \in Writers : writers'[v].step # "collided"
        /\ OnlyPublished'
    <3>. HIDE DEF k, same
    <3>. QED BY <1>1, <2>1, <2>2, TurnEnds
  <2>4. StoreTypes'
    BY <1>1, <2>3 DEF StoreInv, StoreTypes
  <2>5. Pointed'
    BY <1>1 DEF StoreInv, Pointed
  <2>6. HoldsItsKey'
    BY <1>1, <2>3 DEF StoreInv, HoldsItsKey, Inside
  <2>7. FactoryGrows'
    BY <1>1, <2>3 DEF StoreInv, FactoryGrows, Inside
  <2>8. Published(k)
    BY <1>2 DEF Published, Stored
  <2>9. PublishesAll'
    BY <1>1, <2>2, <2>8 DEF StoreInv, StoreTypes, PublishesAll, Published
  <2>. QED BY <2>3, <2>4, <2>5, <2>6, <2>7, <2>9 DEF StoreInv
<1>3. CASE ~same
  <2>. DEFINE after == [writers[w] EXCEPT !.step = "append"]
  <2>1. /\ writers' = [writers EXCEPT ![w] = after]
        /\ UNCHANGED <<published, lock>>
    BY <1>3 DEF Compare
  <2>2. /\ after \in Transactions /\ after.step = "append"
        /\ after.key = k /\ after.text = writers[w].text /\ after.scope = Factory
        /\ after.build = writers[w].build /\ after.left = writers[w].left
    BY <1>1 DEF StoreInv, StoreTypes, Transactions, Inside, Under
  <2>3. Differs(values[k][Factory], writers[w].text)
    <3>1. /\ values[k][Factory] \in Seq(Wordings)
          /\ pointers[k][Factory] = Len(values[k][Factory])
      BY <1>1 DEF StoreInv, StoreTypes, FactoryGrows
    <3>2. CASE pointers[k][Factory] > 0
      BY <1>3, <3>1, <3>2 DEF Stored, Differs
    <3>3. CASE ~(pointers[k][Factory] > 0)
      BY <3>1, <3>3 DEF Differs
    <3>. QED BY <3>2, <3>3
  <2>. HIDE DEF after
  <2>4. StoreTypes'
    BY <1>1, <2>1, <2>2 DEF StoreInv, StoreTypes
  <2>5. Pointed'
    BY <1>1 DEF StoreInv, Pointed
  <2>6. HoldsItsKey'
    BY <1>1, <2>1, <2>2 DEF StoreInv, StoreTypes, HoldsItsKey, Inside
  <2>7. OnlyPublished'
    BY <1>1, <2>1, <2>2 DEF StoreInv, StoreTypes, OnlyPublished
  <2>8. FactoryGrows'
    BY <1>1, <2>1, <2>2, <2>3 DEF StoreInv, StoreTypes, FactoryGrows
  <2>9. PublishesAll'
    BY <1>1, <2>1, <2>2 DEF StoreInv, StoreTypes, PublishesAll, Published
  <2>. QED BY <2>4, <2>5, <2>6, <2>7, <2>8, <2>9 DEF StoreInv
<1>. QED BY <1>2, <1>3

\* What appending a row does to the rows of every key and scope.
LEMMA RowAppended ==
  ASSUME StoreTypes, NEW k \in Keys, NEW s \in Scopes, NEW x \in Wordings,
         values' = [values EXCEPT ![k][s] = Append(@, x)]
  PROVE  /\ values' \in [Keys -> [Scopes -> Seq(Wordings)]]
         /\ Len(values'[k][s]) = Len(values[k][s]) + 1
         /\ \A i \in 1 .. Len(values[k][s]) : values'[k][s][i] = values[k][s][i]
         /\ values'[k][s][Len(values'[k][s])] = x
         /\ \A j \in Keys, r \in Scopes : j # k \/ r # s => values'[j][r] = values[j][r]
<1>1. values[k][s] \in Seq(Wordings) /\ values[k] \in [Scopes -> Seq(Wordings)]
  BY DEF StoreTypes
<1>2. Append(values[k][s], x) \in Seq(Wordings)
  BY <1>1
<1>3. values' \in [Keys -> [Scopes -> Seq(Wordings)]]
  BY <1>2 DEF StoreTypes
<1>4. values'[k][s] = Append(values[k][s], x)
  BY <1>1 DEF StoreTypes
<1>5. /\ Len(values'[k][s]) = Len(values[k][s]) + 1
      /\ \A i \in 1 .. Len(values[k][s]) : values'[k][s][i] = values[k][s][i]
      /\ values'[k][s][Len(values'[k][s])] = x
  BY <1>1, <1>4
<1>6. \A j \in Keys, r \in Scopes : j # k \/ r # s => values'[j][r] = values[j][r]
  BY DEF StoreTypes
<1>. QED BY <1>3, <1>5, <1>6

\* The row and the pointer are committed together.
LEMMA CommitEffect ==
  ASSUME StoreInv, NEW w \in Writers, Commit(w)
  PROVE  /\ writers[w].step = "commit" /\ writers[w].step \in Inside
         /\ writers[w].key \in Keys /\ writers[w].scope \in Scopes /\ writers[w].text \in Wordings
         /\ writers[w].version = Len(values[writers[w].key][writers[w].scope]) + 1
         /\ values' = [values EXCEPT ![writers[w].key][writers[w].scope] = Append(@, writers[w].text)]
         /\ pointers' = [pointers EXCEPT ![writers[w].key][writers[w].scope] = writers[w].version]
         /\ Proceed(w) /\ Release(w)
<1>1. /\ writers[w].step = "commit" /\ writers[w].step \in Inside
      /\ writers[w].key \in Keys /\ writers[w].scope \in Scopes /\ writers[w].text \in Wordings
  BY DEF Commit, StoreInv, StoreTypes, Transactions, Inside, Under
<1>2. writers[w].version = Len(values[writers[w].key][writers[w].scope]) + 1
  BY <1>1 DEF StoreInv, HoldsItsKey
<1>. QED BY <1>1, <1>2 DEF Commit

LEMMA CommitKeeps ==
  ASSUME StoreInv, NEW w \in Writers, Commit(w)
  PROVE  StoreInv'
<1>. DEFINE k == writers[w].key
            s == writers[w].scope
            x == writers[w].text
            n == Len(values[k][s])
<1>1. /\ writers[w].step = "commit" /\ writers[w].step \in Inside
      /\ k \in Keys /\ s \in Scopes /\ x \in Wordings /\ writers[w].version = n + 1
      /\ values' = [values EXCEPT ![k][s] = Append(@, x)]
      /\ pointers' = [pointers EXCEPT ![k][s] = n + 1]
      /\ Proceed(w) /\ Release(w)
  BY CommitEffect
<1>2. PICK t \in Transactions :
         /\ writers' = [writers EXCEPT ![w] = t]
         /\ t.step = "rest" => t.build = "none" /\ t.left = {}
         /\ t.step # "rest" =>
              /\ t.step = "lockPublish" /\ t.scope = Factory /\ t.build \in Builds
              /\ t.key \in Keys /\ t.text \in Wordings
              /\ t.left \cup {t.key} = writers[w].left
              /\ t.build = writers[w].build
         /\ published' # published => writers[w].left = {} /\ writers[w].build # "none"
  BY <1>1, ProceedEffect
<1>3. /\ lock' \in [Keys -> Writers \cup {Free}] /\ writers' \in [Writers -> Transactions]
      /\ \A v \in Writers :
            writers'[v].step \in Under => writers'[v].key \in Keys /\ writers'[v].text \in Wordings
      /\ \A v \in Writers :
            writers'[v].step \in Inside =>
              /\ v # w /\ writers'[v] = writers[v] /\ lock'[writers'[v].key] = v
              /\ writers[v].key # writers[w].key
      /\ \A v \in Writers : writers'[v].step # "collided"
      /\ OnlyPublished'
  <2>. HIDE DEF k, s, x, n
  <2>. QED BY <1>1, <1>2, TurnEnds
<1>4. /\ values' \in [Keys -> [Scopes -> Seq(Wordings)]]
      /\ Len(values'[k][s]) = n + 1
      /\ \A i \in 1 .. n : values'[k][s][i] = values[k][s][i]
      /\ values'[k][s][Len(values'[k][s])] = x
      /\ \A j \in Keys, r \in Scopes : j # k \/ r # s => values'[j][r] = values[j][r]
  BY <1>1, RowAppended DEF StoreInv
<1>5. n \in Nat /\ values[k][s] \in Seq(Wordings) /\ Factory \in Scopes
  BY <1>1 DEF StoreInv, StoreTypes, Scopes
<1>6. /\ pointers' \in [Keys -> [Scopes -> Nat]] /\ pointers'[k][s] = n + 1
      /\ \A j \in Keys, r \in Scopes : j # k \/ r # s => pointers'[j][r] = pointers[j][r]
  BY <1>1, <1>5 DEF StoreInv, StoreTypes
<1>. HIDE DEF k, s, x, n
<1>7. StoreTypes'
  BY <1>3, <1>4, <1>6 DEF StoreTypes
<1>8. Pointed'
  <2>. SUFFICES ASSUME NEW j \in Keys, NEW r \in Scopes PROVE pointers'[j][r] <= Len(values'[j][r])
    BY DEF Pointed
  <2>1. CASE j = k /\ r = s
    BY <1>4, <1>5, <1>6, <2>1
  <2>2. CASE j # k \/ r # s
    BY <1>4, <1>6, <2>2 DEF StoreInv, Pointed
  <2>. QED BY <2>1, <2>2
<1>9. HoldsItsKey'
  <2>. SUFFICES ASSUME NEW v \in Writers, writers'[v].step \in Inside
                PROVE  /\ lock'[writers'[v].key] = v
                       /\ writers'[v].step = "commit" =>
                            writers'[v].version = Len(values'[writers'[v].key][writers'[v].scope]) + 1
    BY <1>3 DEF HoldsItsKey, Inside
  <2>1. /\ writers'[v] = writers[v] /\ lock'[writers'[v].key] = v /\ writers[v].key # k
    BY <1>3 DEF k
  <2>2. writers[v].key \in Keys /\ writers[v].scope \in Scopes
    BY <2>1 DEF StoreInv, StoreTypes, Transactions, Under
  <2>3. values'[writers[v].key][writers[v].scope] = values[writers[v].key][writers[v].scope]
    BY <1>4, <2>1, <2>2
  <2>. QED BY <2>1, <2>3 DEF StoreInv, HoldsItsKey
<1>10. FactoryGrows'
  <2>1. \A j \in Keys : pointers'[j][Factory] = Len(values'[j][Factory])
    <3>. TAKE j \in Keys
    <3>1. CASE j = k /\ s = Factory
      BY <1>4, <1>6, <3>1
    <3>2. CASE j # k \/ s # Factory
      BY <1>4, <1>5, <1>6, <3>2 DEF StoreInv, FactoryGrows
    <3>. QED BY <3>1, <3>2
  <2>2. \A v \in Writers :
          writers'[v].step \in {"append", "commit"} /\ writers'[v].scope = Factory =>
            Differs(values'[writers'[v].key][Factory], writers'[v].text)
    <3>. SUFFICES ASSUME NEW v \in Writers, writers'[v].step \in {"append", "commit"},
                         writers'[v].scope = Factory
                  PROVE  Differs(values'[writers'[v].key][Factory], writers'[v].text)
      OBVIOUS
    <3>1. writers'[v] = writers[v] /\ writers[v].key # k /\ writers[v].key \in Keys
      BY <1>3 DEF Inside, Under, k
    <3>2. values'[writers[v].key][Factory] = values[writers[v].key][Factory]
      BY <1>4, <1>5, <3>1
    <3>. QED BY <3>1, <3>2 DEF StoreInv, FactoryGrows
  <2>3. \A j \in Keys :
          \A i \in 1 .. Len(values'[j][Factory]) - 1 : values'[j][Factory][i] # values'[j][Factory][i + 1]
    <3>. SUFFICES ASSUME NEW j \in Keys, NEW i \in 1 .. Len(values'[j][Factory]) - 1
                  PROVE  values'[j][Factory][i] # values'[j][Factory][i + 1]
      OBVIOUS
    <3>1. CASE j # k \/ s # Factory
      <4>1. values'[j][Factory] = values[j][Factory]
        BY <1>4, <1>5, <3>1
      <4>. QED BY <4>1 DEF StoreInv, FactoryGrows
    <3>2. CASE j = k /\ s = Factory
      <4>1. i \in 1 .. n
        BY <1>4, <1>5, <3>2
      <4>2. CASE i = n
        <5>1. values[k][Factory] # <<>>
          BY <1>5, <3>2, <4>1, <4>2 DEF n
        <5>2. values[k][Factory][n] # x
          BY <1>1, <3>2, <5>1 DEF StoreInv, FactoryGrows, Differs, k, s, x, n
        <5>. QED BY <1>4, <1>5, <3>2, <4>1, <4>2, <5>2
      <4>3. CASE i # n
        <5>1. i \in 1 .. n - 1 /\ i + 1 \in 1 .. n
          BY <1>5, <4>1, <4>3
        <5>2. values[k][Factory][i] # values[k][Factory][i + 1]
          BY <1>1, <3>2, <5>1 DEF StoreInv, FactoryGrows, n
        <5>. QED BY <1>4, <1>5, <3>2, <4>1, <5>1, <5>2
      <4>. QED BY <4>2, <4>3
    <3>. QED BY <3>1, <3>2
  <2>. QED BY <2>1, <2>2, <2>3 DEF FactoryGrows
<1>11. PublishesAll'
  <2>1. \A j \in Keys : Published(j) => pointers'[j][Factory] > 0
    <3>. SUFFICES ASSUME NEW j \in Keys, pointers[j][Factory] > 0 PROVE pointers'[j][Factory] > 0
      BY DEF Published
    <3>1. CASE j = k /\ s = Factory
      BY <1>5, <1>6, <3>1
    <3>2. CASE j # k \/ s # Factory
      BY <1>5, <1>6, <3>2
    <3>. QED BY <3>1, <3>2
  <2>2. s = Factory => pointers'[k][Factory] > 0
    BY <1>5, <1>6
  <2>3. writers[w].build # "none" => s = Factory
    BY DEF StoreInv, OnlyPublished, s
  <2>4. \A v \in Writers : writers'[v].build # "none" =>
          \A j \in Keys \ (writers'[v].left \cup {writers'[v].key}) : pointers'[j][Factory] > 0
    <3>. SUFFICES ASSUME NEW v \in Writers, writers'[v].build # "none",
                         NEW j \in Keys \ (writers'[v].left \cup {writers'[v].key})
                  PROVE  pointers'[j][Factory] > 0
      OBVIOUS
    <3>1. CASE v # w
      <4>1. writers'[v] = writers[v]
        BY <1>2, <3>1 DEF StoreInv, StoreTypes
      <4>. QED BY <2>1, <4>1 DEF StoreInv, PublishesAll
    <3>2. CASE v = w
      <4>1. writers'[w] = t
        BY <1>2 DEF StoreInv, StoreTypes
      <4>2. t.left \cup {t.key} = writers[w].left /\ writers[w].build # "none"
        BY <1>2, <3>2, <4>1
      <4>3. CASE j = k
        BY <2>2, <2>3, <4>2, <4>3
      <4>4. CASE j # k
        BY <2>1, <3>2, <4>1, <4>2, <4>4 DEF StoreInv, PublishesAll, k
      <4>. QED BY <4>3, <4>4
    <3>. QED BY <3>1, <3>2
  <2>5. published' # {} => \A j \in Keys : pointers'[j][Factory] > 0
    <3>1. CASE published' = published
      BY <2>1, <3>1 DEF StoreInv, PublishesAll
    <3>2. CASE published' # published
      <4>1. writers[w].left = {} /\ writers[w].build # "none"
        BY <1>2, <3>2
      <4>2. \A j \in Keys \ {k} : Published(j)
        BY <4>1 DEF StoreInv, PublishesAll, k
      <4>. QED BY <2>1, <2>2, <2>3, <4>1, <4>2
    <3>. QED BY <3>1, <3>2
  <2>. QED BY <2>4, <2>5 DEF PublishesAll, Published
<1>. QED BY <1>3, <1>7, <1>8, <1>9, <1>10, <1>11 DEF StoreInv

\* An operator's reset: the pointer goes, never the factory's.
LEMMA ResetKeeps ==
  ASSUME StoreInv, NEW w \in Writers, Reset(w)
  PROVE  StoreInv'
<1>. DEFINE k == writers[w].key
            s == writers[w].scope
<1>1. /\ writers[w].step = "reset" /\ writers[w].step \in Inside /\ k \in Keys
      /\ s \in Scopes /\ s # Factory /\ Factory \in Scopes
      /\ values' = values
      /\ pointers' = [pointers EXCEPT ![k][s] = 0]
      /\ Proceed(w) /\ Release(w)
  BY DEF Reset, KeepVersions, StoreInv, StoreTypes, Transactions, OnlyPublished, Inside, Under, Scopes
<1>2. PICK t \in Transactions :
         /\ writers' = [writers EXCEPT ![w] = t]
         /\ t.step = "rest" => t.build = "none" /\ t.left = {}
         /\ t.step # "rest" =>
              /\ t.step = "lockPublish" /\ t.scope = Factory /\ t.build \in Builds
              /\ t.key \in Keys /\ t.text \in Wordings
              /\ t.left \cup {t.key} = writers[w].left
              /\ t.build = writers[w].build
         /\ published' # published => writers[w].left = {} /\ writers[w].build # "none"
  BY <1>1, ProceedEffect
<1>3. writers[w].build = "none" /\ writers[w].left = {} /\ published' = published /\ t.step = "rest"
  BY <1>1, <1>2 DEF StoreInv, OnlyPublished
<1>4. /\ lock' \in [Keys -> Writers \cup {Free}] /\ writers' \in [Writers -> Transactions]
      /\ \A v \in Writers :
            writers'[v].step \in Under => writers'[v].key \in Keys /\ writers'[v].text \in Wordings
      /\ \A v \in Writers :
            writers'[v].step \in Inside =>
              /\ v # w /\ writers'[v] = writers[v] /\ lock'[writers'[v].key] = v
              /\ writers[v].key # writers[w].key
      /\ \A v \in Writers : writers'[v].step # "collided"
      /\ OnlyPublished'
  <2>. HIDE DEF k, s
  <2>. QED BY <1>1, <1>2, TurnEnds
<1>5. /\ pointers' \in [Keys -> [Scopes -> Nat]] /\ pointers'[k][s] = 0
      /\ \A j \in Keys, r \in Scopes : j # k \/ r # s => pointers'[j][r] = pointers[j][r]
      /\ \A j \in Keys : pointers'[j][Factory] = pointers[j][Factory]
  BY <1>1 DEF StoreInv, StoreTypes
<1>. HIDE DEF k, s
<1>6. StoreTypes'
  BY <1>1, <1>4, <1>5 DEF StoreInv, StoreTypes
<1>7. Pointed'
  <2>. SUFFICES ASSUME NEW j \in Keys, NEW r \in Scopes PROVE pointers'[j][r] <= Len(values[j][r])
    BY <1>1 DEF Pointed
  <2>1. Len(values[j][r]) \in Nat
    BY DEF StoreInv, StoreTypes
  <2>. QED BY <1>5, <2>1 DEF StoreInv, Pointed
<1>8. HoldsItsKey'
  <2>1. ASSUME NEW v \in Writers, writers'[v].step \in Inside
        PROVE  /\ lock'[writers'[v].key] = v
               /\ writers'[v].step = "commit" =>
                    writers'[v].version = Len(values'[writers'[v].key][writers'[v].scope]) + 1
    <3>1. writers'[v] = writers[v] /\ lock'[writers'[v].key] = v
      BY <1>4, <2>1
    <3>. QED BY <1>1, <3>1 DEF StoreInv, HoldsItsKey
  <2>. QED BY <1>4, <2>1 DEF HoldsItsKey, Inside
<1>9. FactoryGrows'
  BY <1>1, <1>4, <1>5 DEF StoreInv, FactoryGrows, Inside
<1>10. PublishesAll'
  BY <1>1, <1>2, <1>3, <1>5 DEF StoreInv, StoreTypes, PublishesAll, Published
<1>. QED BY <1>4, <1>6, <1>7, <1>8, <1>9, <1>10 DEF StoreInv

\* The loops leave the store alone.
LEMMA LoopsLeaveStore ==
  ASSUME StoreInv, UNCHANGED <<values, pointers, lock, writers, published>>
  PROVE  StoreInv'
BY DEF StoreInv, StoreTypes, Pointed, HoldsItsKey, OnlyPublished, FactoryGrows, PublishesAll, Published

-----------------------------------------------------------------------------
\* Versions are only ever appended, whichever writer takes a step.
LEMMA VersionsStay ==
  ASSUME StoreInv,
         NEW w \in Writers,
         \/ Edit(w) \/ StartWorker(w) \/ Lock(w) \/ Compare(w)
         \/ AppendVersion(w) \/ Commit(w) \/ Reset(w) \/ Lose(w)
  PROVE  /\ \A k \in Keys, s \in Scopes :
              /\ Len(values[k][s]) <= Len(values'[k][s])
              /\ \A i \in 1 .. Len(values[k][s]) : values'[k][s][i] = values[k][s][i]
         /\ published \subseteq published' /\ published' \subseteq published \cup Builds
         /\ UNCHANGED <<units, records>>
<1>0. \A k \in Keys, s \in Scopes : values[k][s] \in Seq(Wordings) /\ Len(values[k][s]) \in Nat
  BY DEF StoreInv, StoreTypes
<1>1. writers[w].build \in Builds \cup {"none"}
  BY DEF StoreInv, StoreTypes, Transactions
<1>2. ASSUME Proceed(w)
      PROVE  published \subseteq published' /\ published' \subseteq published \cup Builds
  BY <1>1, <1>2 DEF Proceed
<1>3. CASE Edit(w) \/ StartWorker(w) \/ Lock(w) \/ AppendVersion(w) \/ Lose(w)
  <2>1. UNCHANGED <<values, published, units, records>>
    BY <1>3 DEF Edit, StartWorker, Lock, AppendVersion, Lose
  <2>. QED BY <1>0, <2>1
<1>4. CASE Compare(w)
  <2>1. UNCHANGED <<values, units, records>>
    BY <1>4 DEF Compare
  <2>2. published \subseteq published' /\ published' \subseteq published \cup Builds
    BY <1>2, <1>4 DEF Compare
  <2>. QED BY <1>0, <2>1, <2>2
<1>5. CASE Commit(w)
  <2>. DEFINE k == writers[w].key
              s == writers[w].scope
              x == writers[w].text
  <2>1. /\ k \in Keys /\ s \in Scopes /\ x \in Wordings
        /\ values' = [values EXCEPT ![k][s] = Append(@, x)]
        /\ Proceed(w) /\ UNCHANGED <<units, records>>
    BY <1>5, CommitEffect DEF Commit
  <2>. HIDE DEF k, s, x
  <2>2. /\ values' \in [Keys -> [Scopes -> Seq(Wordings)]]
        /\ Len(values'[k][s]) = Len(values[k][s]) + 1
        /\ \A i \in 1 .. Len(values[k][s]) : values'[k][s][i] = values[k][s][i]
        /\ values'[k][s][Len(values'[k][s])] = x
        /\ \A j \in Keys, r \in Scopes : j # k \/ r # s => values'[j][r] = values[j][r]
    <3>1. StoreTypes
      BY DEF StoreInv
    <3>. QED BY <2>1, <3>1, RowAppended
  <2>3. ASSUME NEW j \in Keys, NEW r \in Scopes
        PROVE  /\ Len(values[j][r]) <= Len(values'[j][r])
               /\ \A i \in 1 .. Len(values[j][r]) : values'[j][r][i] = values[j][r][i]
    <3>1. CASE j = k /\ r = s
      BY <1>0, <2>2, <3>1
    <3>2. CASE j # k \/ r # s
      BY <1>0, <2>2, <3>2
    <3>. QED BY <3>1, <3>2
  <2>. QED BY <1>2, <2>1, <2>3
<1>6. CASE Reset(w)
  <2>1. UNCHANGED <<values, units, records>> /\ Proceed(w)
    BY <1>6 DEF Reset, KeepVersions
  <2>. QED BY <1>0, <1>2, <2>1
<1>. QED BY <1>3, <1>4, <1>5, <1>6

\* The chain of every place ends at the factory.
LEMMA ChainShape ==
  ASSUME NEW chain \in Places
  PROVE  chain \in Seq(Scopes \ {Unknown}) /\ \E i \in DOMAIN chain : chain[i] = Factory
<1>. DEFINE S == Scopes \ {Unknown}
<1>1. ASSUME NEW d \in Scopes \cup {Unknown}, NEW r \in Scopes \cup {Unknown}
      PROVE  Chain(d, r) \in Seq(S) /\ \E i \in DOMAIN Chain(d, r) : Chain(d, r)[i] = Factory
  <2>. DEFINE A == IF d # Unknown THEN <<d>> ELSE <<>>
              B == IF r \notin {Unknown, d} THEN <<r>> ELSE <<>>
              C == <<Global, Factory>>
  <2>0. <<>> \in Seq(S) /\ \A e \in S : <<e>> \in Seq(S)
    OBVIOUS
  <2>1. A \in Seq(S) /\ B \in Seq(S)
    <3>1. A \in Seq(S)
      BY <2>0
    <3>2. B \in Seq(S)
      BY <2>0
    <3>. QED BY <3>1, <3>2
  <2>2. C \in Seq(S) /\ Len(C) = 2 /\ C[2] = Factory
    <3>1. Global \in S /\ Factory \in S
      BY DEF Global, Factory, Scopes, Unknown
    <3>. HIDE DEF S
    <3>. QED BY <3>1
  <2>. HIDE DEF A, B, C, S
  <2>3. A \o B \in Seq(S)
    BY <2>1
  <2>4. (A \o B) \o C \in Seq(S)
    BY <2>2, <2>3
  <2>5. /\ Len((A \o B) \o C) = Len(A \o B) + 2 /\ Len(A \o B) \in Nat
        /\ ((A \o B) \o C)[Len(A \o B) + 2] = C[2]
    <3>. DEFINE D == A \o B
    <3>1. D \in Seq(S) /\ Len(D) \in Nat
      BY <2>3
    <3>. HIDE DEF D
    <3>2. Len(D \o C) = Len(D) + 2
      BY <2>2, <3>1, ConcatProperties
    <3>3. (D \o C)[Len(D) + 2] = C[2]
      <4>1. \A i \in 1 .. Len(D) + Len(C) :
              (D \o C)[i] = IF i <= Len(D) THEN D[i] ELSE C[i - Len(D)]
        BY <2>2, <3>1, ConcatProperties
      <4>. DEFINE n == Len(D)
      <4>2. n \in Nat /\ Len(C) = 2
        BY <2>2, <3>1
      <4>. HIDE DEF n
      <4>3. /\ n + 2 \in 1 .. n + 2 /\ ~(n + 2 <= n) /\ (n + 2) - n = 2
        BY <4>2
      <4>4. \A i \in 1 .. n + 2 : (D \o C)[i] = IF i <= n THEN D[i] ELSE C[i - n]
        BY <4>1, <4>2 DEF n
      <4>5. (D \o C)[n + 2] = C[(n + 2) - n]
        BY <4>3, <4>4, Zenon
      <4>. QED BY <4>3, <4>5 DEF n
    <3>. QED BY <3>1, <3>2, <3>3 DEF D
  <2>6. Chain(d, r) = (A \o B) \o C
    BY DEF Chain, A, B, C
  <2>. QED BY <2>2, <2>4, <2>5, <2>6
<1>2. Directory \in Scopes /\ Repository \in Scopes
  BY DEF Scopes
<1>. QED BY <1>1, <1>2 DEF Places

\* A non-empty set of naturals has a smallest element.
LEMMA SmallestExists ==
  ASSUME NEW T, T \subseteq Nat, T # {}
  PROVE  \E i \in T : \A j \in T : i <= j
<1>1. PICK i \in T : \A j \in T : ~(<<j, i>> \in OpToRel(<, Nat))
  BY NatLessThanWellFounded, WFMin
<1>2. \A j \in T : ~(j < i)
  BY <1>1 DEF OpToRel
<1>. QED BY <1>2

\* What is resolved: a key, with the version that was in force and its text.
Uses == [key : Keys, scope : Scopes, version : Nat, text : Wordings]

Readable(use) ==
  /\ use.version \in 1 .. Len(values[use.key][use.scope])
  /\ values[use.key][use.scope][use.version] = use.text

\* With a factory version in force, every place resolves to a stored version.
LEMMA ResolvesToStored ==
  ASSUME StoreInv, NEW k \in Keys, Published(k), NEW chain \in Places, NEW build
  PROVE  /\ resolve(k, chain, build) \in Uses
         /\ resolve(k, chain, build).key = k
         /\ Readable(resolve(k, chain, build))
<1>. DEFINE with == {i \in DOMAIN chain : Stored(k, chain[i])}
            first == CHOOSE i \in with : \A j \in with : i <= j
            s == Winner(k, chain)
<1>1. chain \in Seq(Scopes \ {Unknown}) /\ \E i \in DOMAIN chain : chain[i] = Factory
  BY ChainShape
<1>2. with # {}
  BY <1>1 DEF Published, Stored
<1>3. with \subseteq Nat
  BY <1>1
<1>4. first \in with
  <2>1. \E i \in with : \A j \in with : i <= j
    <3>. HIDE DEF with
    <3>. QED BY <1>2, <1>3, SmallestExists
  <2>. HIDE DEF with
  <2>. QED BY <2>1
<1>5. s = chain[first]
  BY <1>2 DEF Winner
<1>6. first \in DOMAIN chain /\ Stored(k, chain[first])
  BY <1>4
<1>. HIDE DEF first, with
<1>7. s \in Scopes /\ s # Unknown /\ Stored(k, s)
  BY <1>1, <1>5, <1>6
<1>. HIDE DEF s
<1>8. resolve(k, chain, build) =
        [key |-> k, scope |-> s, version |-> pointers[k][s], text |-> values[k][s][pointers[k][s]]]
  BY <1>7 DEF resolve, s
<1>9. /\ pointers[k][s] \in Nat /\ pointers[k][s] > 0 /\ pointers[k][s] <= Len(values[k][s])
      /\ values[k][s] \in Seq(Wordings) /\ Len(values[k][s]) \in Nat
  BY <1>7 DEF StoreInv, StoreTypes, Pointed, Stored
<1>10. values[k][s][pointers[k][s]] \in Wordings
  BY <1>9
<1>. QED BY <1>7, <1>8, <1>9, <1>10 DEF Uses, Readable

-----------------------------------------------------------------------------
(* The loops.                                                              *)

\* A loop that has started stands at a place, and a worker that takes work
\* runs it; what it resolved it carries, stored as it was read; and what was
\* recorded of it is what it carries.
Carried == [pass : Nat, chain : Places \cup {<<>>}, build : Builds \cup {"none"},
            resolved : [Keys -> Uses] \cup {<<>>}]

Stands ==
  /\ published \subseteq Builds
  /\ units \in [Units -> Carried]
  /\ \A u \in Units : units[u].pass # 0 => units[u].chain \in Places /\ published # {}
  /\ \A u \in Units : units[u].pass = 0 => units[u].resolved = <<>>

CarriesStored ==
  \A u \in Units : units[u].resolved # <<>> =>
    \A k \in Keys : units[u].resolved[k].key = k /\ Readable(units[u].resolved[k])

RecordsWhatItCarries ==
  \A r \in records :
    /\ r.unit \in Units /\ r.use.key \in Keys
    /\ units[r.unit].resolved # <<>> /\ r.use = units[r.unit].resolved[r.use.key]

LoopInv == Stands /\ CarriesStored /\ RecordsWhatItCarries

LEMMA LoopsStart == InitConfiguration => LoopInv
<1>. SUFFICES ASSUME InitConfiguration PROVE LoopInv
  OBVIOUS
<1>1. Fresh \in Carried /\ Fresh.pass = 0 /\ Fresh.resolved = <<>>
  BY DEF Fresh, Carried
<1>2. Stands
  BY <1>1 DEF InitConfiguration, Stands
<1>3. CarriesStored /\ RecordsWhatItCarries
  BY <1>1 DEF InitConfiguration, CarriesStored, RecordsWhatItCarries
<1>. QED BY <1>2, <1>3 DEF LoopInv

\* A writer's step leaves every stored version where it was.
LEMMA WritersKeepLoops ==
  ASSUME StoreInv, LoopInv, NEW w \in Writers,
         \/ Edit(w) \/ StartWorker(w) \/ Lock(w) \/ Compare(w)
         \/ AppendVersion(w) \/ Commit(w) \/ Reset(w) \/ Lose(w)
  PROVE  LoopInv'
<1>1. /\ \A k \in Keys, s \in Scopes :
              /\ Len(values[k][s]) <= Len(values'[k][s])
              /\ \A i \in 1 .. Len(values[k][s]) : values'[k][s][i] = values[k][s][i]
      /\ published \subseteq published' /\ published' \subseteq published \cup Builds
      /\ UNCHANGED <<units, records>>
  BY VersionsStay
<1>2. StoreInv'
  BY BeginKeeps, LockKeeps, CompareKeeps, AppendKeeps, CommitKeeps, ResetKeeps, LoseKeeps
<1>3. Stands'
  BY <1>1 DEF LoopInv, Stands
<1>4. CarriesStored'
  <2>. SUFFICES ASSUME NEW u \in Units, units[u].resolved # <<>>, NEW k \in Keys
                PROVE  units[u].resolved[k].key = k /\ Readable(units[u].resolved[k])'
    BY <1>1 DEF CarriesStored
  <2>. DEFINE use == units[u].resolved[k]
  <2>1. use \in Uses
    BY DEF LoopInv, Stands, Carried
  <2>2. use.key = k /\ Readable(use)
    BY DEF LoopInv, CarriesStored
  <2>3. units' = units
    BY <1>1
  <2>4. /\ use.version \in 1 .. Len(values'[use.key][use.scope])
        /\ values'[use.key][use.scope][use.version] = use.text
    <3>. HIDE DEF use
    <3>1. /\ use.key \in Keys /\ use.scope \in Scopes
          /\ use.version \in 1 .. Len(values[use.key][use.scope])
          /\ values[use.key][use.scope][use.version] = use.text
      BY <2>1, <2>2 DEF Uses, Readable
    <3>2. \A j \in Keys, r \in Scopes : Len(values[j][r]) \in Nat /\ Len(values'[j][r]) \in Nat
      BY <1>2 DEF StoreInv, StoreTypes
    <3>3. \A j \in Keys, r \in Scopes : \A v \in 1 .. Len(values[j][r]) :
            v \in 1 .. Len(values'[j][r]) /\ values'[j][r][v] = values[j][r][v]
      BY <1>1, <3>2
    <3>. QED BY <3>1, <3>3
  <2>. QED BY <2>2, <2>3, <2>4 DEF Readable
<1>5. RecordsWhatItCarries'
  BY <1>1 DEF LoopInv, RecordsWhatItCarries
<1>. QED BY <1>3, <1>4, <1>5 DEF LoopInv

LEMMA StartUnitKeeps ==
  ASSUME StoreInv, LoopInv, NEW u \in Units, StartUnit(u)
  PROVE  LoopInv'
<1>1. PICK b \in published, chain \in Places :
        units' = [units EXCEPT ![u] = [Fresh EXCEPT !.pass = 1, !.chain = chain, !.build = b]]
  BY DEF StartUnit
<1>2. units[u].pass = 0 /\ UNCHANGED <<values, published, records>>
  BY DEF StartUnit
<1>. DEFINE n == [Fresh EXCEPT !.pass = 1, !.chain = chain, !.build = b]
<1>3. /\ n \in Carried /\ n.pass = 1 /\ n.chain = chain /\ n.resolved = <<>>
      /\ units' = [units EXCEPT ![u] = n]
  BY <1>1 DEF LoopInv, Stands, Carried, Fresh
<1>. HIDE DEF n
<1>4. Stands'
  BY <1>1, <1>2, <1>3 DEF LoopInv, Stands
<1>5. CarriesStored'
  BY <1>2, <1>3 DEF LoopInv, Stands, CarriesStored, Readable
<1>6. RecordsWhatItCarries'
  BY <1>2, <1>3 DEF LoopInv, Stands, RecordsWhatItCarries
<1>. QED BY <1>4, <1>5, <1>6 DEF LoopInv

\* A pass runs under what the loop carries, or resolves it once and for all.
LEMMA PassKeeps ==
  ASSUME StoreInv, LoopInv, NEW u \in Units, Pass(u)
  PROVE  LoopInv'
<1>. DEFINE now == Ensure(u)
<1>1. /\ units[u].pass # 0 /\ units[u].pass \in Nat
      /\ records' = records \cup {[unit |-> u, use |-> now[k]] : k \in Keys}
      /\ UNCHANGED <<values, published>>
  BY BoundsArePositive DEF Pass, LoopInv, Stands, Carried
<1>2. PICK b \in published :
        units' = [units EXCEPT ![u].pass = @ + 1, ![u].resolved = now, ![u].build = b]
  BY DEF Pass
<1>3. \A k \in Keys : Published(k)
  BY <1>1 DEF LoopInv, Stands, StoreInv, PublishesAll
<1>4. now \in [Keys -> Uses] \cup {<<>>}
  <2>1. CASE units[u].resolved # <<>>
    BY <2>1 DEF Ensure, LoopInv, Stands, Carried
  <2>2. CASE units[u].resolved = <<>>
    <3>1. now = [k \in Keys |-> resolve(k, units[u].chain, units[u].build)]
      BY <2>2 DEF Ensure, Resolution
    <3>2. \A k \in Keys : resolve(k, units[u].chain, units[u].build) \in Uses
      BY <1>1, <1>3, ResolvesToStored DEF LoopInv, Stands
    <3>. QED BY <3>1, <3>2
  <2>. QED BY <2>1, <2>2
<1>5. \A k \in Keys : now[k].key = k /\ Readable(now[k])
  <2>1. CASE units[u].resolved # <<>>
    BY <2>1 DEF Ensure, LoopInv, CarriesStored
  <2>2. CASE units[u].resolved = <<>>
    <3>1. now = [k \in Keys |-> resolve(k, units[u].chain, units[u].build)]
      BY <2>2 DEF Ensure, Resolution
    <3>2. \A k \in Keys : /\ resolve(k, units[u].chain, units[u].build).key = k
                          /\ Readable(resolve(k, units[u].chain, units[u].build))
      BY <1>1, <1>3, ResolvesToStored DEF LoopInv, Stands
    <3>. QED BY <3>1, <3>2
  <2>. QED BY <2>1, <2>2
<1>6. Keys # {} => now # <<>>
  <2>1. CASE units[u].resolved # <<>>
    BY <2>1 DEF Ensure
  <2>2. CASE units[u].resolved = <<>>
    <3>1. now = [k \in Keys |-> resolve(k, units[u].chain, units[u].build)]
      BY <2>2 DEF Ensure, Resolution
    <3>2. DOMAIN now = Keys
      BY <3>1
    <3>3. DOMAIN <<>> = {}
      OBVIOUS
    <3>. QED BY <3>2, <3>3
  <2>. QED BY <2>1, <2>2
<1>7. units[u].resolved # <<>> => now = units[u].resolved
  BY DEF Ensure
<1>. HIDE DEF now
<1>. DEFINE n == [units[u] EXCEPT !.pass = units[u].pass + 1, !.resolved = now, !.build = b]
<1>8. /\ n \in Carried /\ n.pass # 0 /\ n.chain = units[u].chain /\ n.resolved = now
      /\ units' = [units EXCEPT ![u] = n]
  <2>1. units[u] \in Carried /\ b \in Builds /\ units \in [Units -> Carried]
    BY <1>2 DEF LoopInv, Stands
  <2>2. n \in Carried /\ n.pass = units[u].pass + 1 /\ n.chain = units[u].chain /\ n.resolved = now
    <3>. DEFINE P == Places \cup {<<>>}
                B == Builds \cup {"none"}
                R == [Keys -> Uses] \cup {<<>>}
    <3>1. Carried = [pass : Nat, chain : P, build : B, resolved : R]
      BY DEF Carried
    <3>2. units[u].pass + 1 \in Nat /\ now \in R /\ b \in B
      BY <1>1, <1>4, <2>1
    <3>. HIDE DEF P, B, R
    <3>3. n \in [pass : Nat, chain : P, build : B, resolved : R]
      BY <2>1, <3>1, <3>2
    <3>4. n.pass = units[u].pass + 1 /\ n.chain = units[u].chain /\ n.resolved = now
      BY <2>1, <3>1
    <3>. HIDE DEF n
    <3>. QED BY <3>1, <3>3, <3>4
  <2>3. units' = [units EXCEPT ![u] = n]
    BY <1>2, <2>1 DEF Carried
  <2>. QED BY <1>1, <2>2, <2>3
<1>. HIDE DEF n
<1>9. Stands'
  BY <1>1, <1>8 DEF LoopInv, Stands
<1>10. CarriesStored'
  <2>. SUFFICES ASSUME NEW v \in Units, units'[v].resolved # <<>>, NEW k \in Keys
                PROVE  units'[v].resolved[k].key = k /\ Readable(units'[v].resolved[k])
    BY <1>1 DEF CarriesStored, Readable
  <2>1. CASE v = u
    BY <1>5, <1>8, <2>1 DEF LoopInv, Stands
  <2>2. CASE v # u
    BY <1>8, <2>2 DEF LoopInv, Stands, CarriesStored
  <2>. QED BY <2>1, <2>2
<1>11. RecordsWhatItCarries'
  <2>. SUFFICES ASSUME NEW r \in records'
                PROVE  /\ r.unit \in Units /\ r.use.key \in Keys
                       /\ units'[r.unit].resolved # <<>>
                       /\ r.use = units'[r.unit].resolved[r.use.key]
    BY DEF RecordsWhatItCarries
  <2>1. CASE r \in records
    <3>1. /\ r.unit \in Units /\ r.use.key \in Keys
          /\ units[r.unit].resolved # <<>> /\ r.use = units[r.unit].resolved[r.use.key]
      BY <2>1 DEF LoopInv, RecordsWhatItCarries
    <3>2. units'[r.unit].resolved = units[r.unit].resolved
      BY <1>7, <1>8, <3>1 DEF LoopInv, Stands
    <3>. QED BY <3>1, <3>2
  <2>2. CASE r \notin records
    <3>1. PICK k \in Keys : r = [unit |-> u, use |-> now[k]]
      BY <1>1, <2>2
    <3>2. r.unit = u /\ r.use = now[k] /\ r.use.key = k
      BY <1>5, <3>1
    <3>3. units'[u].resolved = now
      BY <1>8 DEF LoopInv, Stands
    <3>. QED BY <1>6, <3>2, <3>3
  <2>. QED BY <2>1, <2>2
<1>. QED BY <1>9, <1>10, <1>11 DEF LoopInv

-----------------------------------------------------------------------------
ConfigurationInv == StoreInv /\ LoopInv

LEMMA ConfigurationKeeps == ConfigurationInv /\ [NextConfiguration]_configurationVars => ConfigurationInv'
<1>. SUFFICES ASSUME StoreInv, LoopInv, [NextConfiguration]_configurationVars
              PROVE  StoreInv' /\ LoopInv'
  BY DEF ConfigurationInv
<1>1. ASSUME NEW w \in Writers,
             \/ Edit(w) \/ StartWorker(w) \/ Lock(w) \/ Compare(w)
             \/ AppendVersion(w) \/ Commit(w) \/ Reset(w) \/ Lose(w)
      PROVE  StoreInv' /\ LoopInv'
  <2>1. StoreInv'
    BY <1>1, BeginKeeps, LockKeeps, CompareKeeps, AppendKeeps, CommitKeeps, ResetKeeps, LoseKeeps
  <2>2. LoopInv'
    BY <1>1, WritersKeepLoops
  <2>. QED BY <2>1, <2>2
<1>2. ASSUME NEW u \in Units, StartUnit(u) \/ Pass(u)
      PROVE  StoreInv' /\ LoopInv'
  <2>1. UNCHANGED <<values, pointers, lock, writers, published>>
    BY <1>2 DEF StartUnit, Pass
  <2>2. StoreInv'
    BY <2>1, LoopsLeaveStore
  <2>3. LoopInv'
    BY <1>2, StartUnitKeeps, PassKeeps
  <2>. QED BY <2>2, <2>3
<1>3. CASE UNCHANGED configurationVars
  <2>1. UNCHANGED <<values, pointers, lock, writers, published, units, records>>
    BY <1>3 DEF configurationVars
  <2>2. StoreInv'
    BY <2>1, LoopsLeaveStore
  <2>3. LoopInv'
    BY <2>1 DEF LoopInv, Stands, CarriesStored, RecordsWhatItCarries, Readable
  <2>. QED BY <2>2, <2>3
<1>. QED BY <1>1, <1>2, <1>3 DEF NextConfiguration

LEMMA ConfigurationHolds == ConfigurationSpec => []ConfigurationInv
<1>1. InitConfiguration => ConfigurationInv
  BY StoreStarts, LoopsStart DEF ConfigurationInv
<1>. QED BY <1>1, ConfigurationKeeps, PTL DEF ConfigurationSpec

\* What a row of an execution names (promptconfig's provenance) reads back as
\* what its agent was told, whatever was edited, reset, published or lost since.
THEOREM RecordsReadBack == ConfigurationSpec => []RecordedStaysReadable
<1>1. ConfigurationInv => RecordedStaysReadable
  <2>. SUFFICES ASSUME StoreInv, LoopInv PROVE RecordedStaysReadable
    BY DEF ConfigurationInv
  <2>1. \A k \in Keys, s \in Scopes : pointers[k][s] <= Len(values[k][s])
    BY DEF StoreInv, Pointed
  <2>2. ASSUME NEW r \in records
        PROVE  LET versions == values[r.use.key][r.use.scope]
               IN r.use.version \in DOMAIN versions /\ versions[r.use.version] = r.use.text
    <3>1. r.use \in Uses /\ Readable(r.use)
      BY DEF LoopInv, Stands, Carried, CarriesStored, RecordsWhatItCarries
    <3>2. r.use.key \in Keys /\ r.use.scope \in Scopes
      BY <3>1 DEF Uses
    <3>3. DOMAIN values[r.use.key][r.use.scope] = 1 .. Len(values[r.use.key][r.use.scope])
      BY <3>2 DEF StoreInv, StoreTypes
    <3>. QED BY <3>1, <3>3 DEF Readable
  <2>. QED BY <2>1, <2>2 DEF RecordedStaysReadable
<1>. QED BY <1>1, ConfigurationHolds, PTL

\* The advisory lock of a key (scopedpg's Set and Reset) makes its writers take
\* turns, and a changed default is published once however many workers start.
THEOREM StoreIsWrittenInTurns == ConfigurationSpec => []WritersTakeTurns
<1>1. ConfigurationInv => WritersTakeTurns
  BY DEF ConfigurationInv, StoreInv, HoldsItsKey, FactoryGrows, WritersTakeTurns
<1>. QED BY <1>1, ConfigurationHolds, PTL

\* A loop (Ensure, and the input of its continue-as-new) keeps what its first
\* pass resolved until its last.
THEOREM LoopKeepsItsVersion == ConfigurationSpec => []LoopRunsUnderOneVersion
<1>1. ConfigurationInv => LoopRunsUnderOneVersion
  BY DEF ConfigurationInv, LoopInv, RecordsWhatItCarries, LoopRunsUnderOneVersion
<1>. QED BY <1>1, ConfigurationHolds, PTL

=============================================================================
