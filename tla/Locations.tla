----------------------------- MODULE Locations ------------------------------
(***************************************************************************)
(* The places one response of the hub refers to (agenthub/location.go):    *)
(* what was recorded about where each unit of work ran becomes a location, *)
(* and NewLocationRegistry publishes the locations and their ancestors as  *)
(* one flat list a client builds a tree from in one pass.                  *)
(*                                                                         *)
(* A place is known by its id, a number here because the registry orders by *)
(* id.  A location value is the sequence of ids from the place up through  *)
(* the ancestors it carries: identity leaves the ancestors out, so that one *)
(* place may come with different ones.                                     *)
(*                                                                         *)
(* The loops of NewLocationRegistry are taken a step at a time: choosing   *)
(* what to publish of each place, breaking the cycles the chosen close, and *)
(* ordering them, parents first.                                           *)
(***************************************************************************)
EXTENDS Integers, Sequences, SequencesExt

CONSTANTS
  Directories,  \* the directories work ran in, as the ids of their places: natural numbers
  Malformed,    \* the directories no location can hold: relative, uncleaned, too long
  Remotes,      \* the refs of work without a directory, other ids
  Unknown,      \* the id of the unknown place, after every digest
  MaxFacts      \* facts one response refers to

Nowhere == -1

\* RecordedPlace: a directory with the repository it belongs to, if the probe
\* found the two to differ; a ref; or nothing.
Facts ==
  [directory : Directories, repository : Directories \cup {Nowhere}, ref : {Nowhere}]
  \cup [directory : {Nowhere}, repository : {Nowhere}, ref : Remotes \cup {Nowhere}]

-----------------------------------------------------------------------------
Invalid == <<>>

NewDirectoryLocation(directory, parent) ==
  IF directory \in Malformed THEN Invalid ELSE <<directory>> \o parent

Location(fact) ==
  IF fact.directory = Nowhere THEN <<IF fact.ref = Nowhere THEN Unknown ELSE fact.ref>>
  ELSE IF fact.repository \in {Nowhere, fact.directory}
  THEN NewDirectoryLocation(fact.directory, <<>>)
  ELSE IF fact.repository \in Malformed THEN Invalid
  ELSE NewDirectoryLocation(fact.directory, <<fact.repository>>)

\* The deeper ancestry is the better known, equally deep ones are told apart by
\* their ids.
betterKnownThan(value, other) ==
  \/ Len(value) > Len(other)
  \/ /\ Len(value) = Len(other)
     /\ \E i \in DOMAIN value : value[i] < other[i] /\ SubSeq(value, 1, i - 1) = SubSeq(other, 1, i - 1)

-----------------------------------------------------------------------------
VARIABLES
  facts,      \* what was recorded of each item of a response, in its order
  outcome,    \* how far the registry has come, or "failed": a fact no location can hold
  pending,    \* the values to consider, the first as far as it has been climbed
  chosen,     \* what is to be published of each place
  walked,     \* the ids on the walk in progress
  settled,    \* the ids no cycle leads through
  published   \* the registry

vars == <<facts, outcome, pending, chosen, walked, settled, published>>

Init ==
  /\ \E n \in 0..MaxFacts : facts \in [1..n -> Facts]
  /\ outcome = "reading" /\ pending = <<>>
  /\ chosen = [id \in {Unknown} |-> <<Unknown>>]
  /\ walked = <<>> /\ settled = {} /\ published = <<>>

Values == [i \in DOMAIN facts |-> Location(facts[i])]

Resolve ==
  /\ outcome = "reading"
  /\ IF Invalid \in ToSet(Values)
       THEN outcome' = "failed" /\ UNCHANGED pending
       ELSE outcome' = "choosing" /\ pending' = Values
  /\ UNCHANGED <<facts, chosen, walked, settled, published>>

-----------------------------------------------------------------------------
(* The closure under ancestry, one value per place.                        *)

\* Mutant of Keeps: the value that arrives last is the one that is kept.
KeepsAny(value) == TRUE

Keeps(value) == value[1] \notin DOMAIN chosen \/ betterKnownThan(value, chosen[value[1]])

\* A referenced location is considered, and then what it carries of its parent.
Consider ==
  /\ outcome = "choosing" /\ pending # <<>>
  /\ LET value == Head(pending)
     IN /\ chosen' = IF ~Keeps(value) THEN chosen
                     ELSE [id \in DOMAIN chosen \cup {value[1]} |->
                             IF id = value[1] THEN value ELSE chosen[id]]
        /\ pending' = (IF Len(value) = 1 THEN <<>> ELSE <<Tail(value)>>) \o Tail(pending)
  /\ UNCHANGED <<facts, outcome, walked, settled, published>>

Considered ==
  /\ outcome = "choosing" /\ pending = <<>> /\ outcome' = "breaking"
  /\ UNCHANGED <<facts, pending, chosen, walked, settled, published>>

-----------------------------------------------------------------------------
(* breakCycles, and findCycle: a walk from each id in order, up the parents. *)

\* The published entry an entry hangs under.
chosenParent(entries, id) ==
  IF Len(entries[id]) > 1 /\ entries[id][2] \in DOMAIN entries THEN entries[id][2] ELSE Nowhere

Onward == chosenParent(chosen, walked[Len(walked)])

SetOut ==
  /\ walked = <<>> /\ settled # DOMAIN chosen
  /\ walked' = <<Min(DOMAIN chosen \ settled)>>
  /\ UNCHANGED <<outcome, chosen, settled>>

Climb ==
  /\ walked # <<>> /\ Onward \notin {Nowhere} \cup settled \cup ToSet(walked)
  /\ walked' = Append(walked, Onward)
  /\ UNCHANGED <<outcome, chosen, settled>>

\* The walk came to a root, or to where another has been.
Settle ==
  /\ walked # <<>> /\ Onward \in {Nowhere} \cup settled
  /\ settled' = settled \cup ToSet(walked) /\ walked' = <<>>
  /\ UNCHANGED <<outcome, chosen>>

\* It met itself: one member of the loop loses its parent, and the search for
\* cycles begins again.
Break ==
  /\ walked # <<>>
  /\ \E met \in DOMAIN walked :
       /\ walked[met] = Onward
       /\ LET loop == {walked[i] : i \in met..Len(walked)}
          IN chosen' = [chosen EXCEPT ![Min(loop)] = <<Min(loop)>>]
  /\ walked' = <<>> /\ settled' = {}
  /\ UNCHANGED outcome

Broken ==
  /\ walked = <<>> /\ settled = DOMAIN chosen
  /\ outcome' = "ordering"
  /\ UNCHANGED <<chosen, walked, settled>>

breakCycles ==
  /\ outcome = "breaking"
  /\ SetOut \/ Climb \/ Settle \/ Break \/ Broken
  /\ UNCHANGED <<facts, pending, published>>

-----------------------------------------------------------------------------
(* publicationOrder: shallowest first, and by id.                          *)

\* Mutant of publishedDepth: the depth of the value that was handed in.
knownDepth(entries) == [id \in DOMAIN entries |-> Len(entries[id]) - 1]

\* How many published ancestors each entry has.
publishedDepth(entries) ==
  LET depth[id \in DOMAIN entries] ==
        IF chosenParent(entries, id) = Nowhere THEN 0 ELSE depth[chosenParent(entries, id)] + 1
  IN depth

Ids == [i \in DOMAIN published |-> published[i][1]]

publicationOrder ==
  /\ outcome = "ordering"
  /\ LET depth == publishedDepth(chosen) left == DOMAIN chosen \ ToSet(Ids)
     IN \E id \in left :
          /\ \A other \in left :
               depth[id] < depth[other] \/ (depth[id] = depth[other] /\ id <= other)
          /\ published' = Append(published, chosen[id])
          /\ outcome' = IF left = {id} THEN "published" ELSE "ordering"
  /\ UNCHANGED <<facts, pending, chosen, walked, settled>>

Next == Resolve \/ Consider \/ Considered \/ breakCycles \/ publicationOrder

Spec == Init /\ [][Next]_vars

-----------------------------------------------------------------------------
Parent(i) == IF Len(published[i]) > 1 THEN published[i][2] ELSE Nowhere

\* A client builds the tree in one pass: every place the facts name is there
\* once, the unknown place too, and a parent always comes before its children,
\* also where the facts contradict one another (NewLocationRegistry).
TreeInOnePass ==
  outcome = "published" =>
    /\ IsInjective(Ids) /\ Unknown \in ToSet(Ids)
    /\ \A i \in DOMAIN Values : ToSet(Values[i]) \subseteq ToSet(Ids)
    /\ \A i \in DOMAIN published :
         Parent(i) # Nowhere => \E j \in 1..(i - 1) : Ids[j] = Parent(i)

\* A value and the ancestors it carries.
Ancestors(value) == {SubSeq(value, i, Len(value)) : i \in DOMAIN value}

\* The best a set of facts says of a place: no order of the facts is in it.
BestKnown(values, id) ==
  LET known == {v \in UNION {Ancestors(values[i]) : i \in DOMAIN values} : v[1] = id}
  IN CHOOSE v \in known : \A w \in known \ {v} : betterKnownThan(v, w)

BestParent(values, id) ==
  IF Len(BestKnown(values, id)) > 1 THEN BestKnown(values, id)[2] ELSE Nowhere

\* The loops the best known of each place closes: the smallest ones.
Loops(values) ==
  LET ids == UNION {ToSet(values[i]) : i \in DOMAIN values}
      closed == {loop \in (SUBSET ids) \ {{}} : {BestParent(values, id) : id \in loop} = loop}
  IN {loop \in closed : \A other \in closed : other \subseteq loop => other = loop}

\* The same facts publish the same registry in whatever order they come (the
\* entity tags are made of it): each place is published as the best-known fact
\* has it, and only the first place of a loop gives up its parent.
SameFactsSameRegistry ==
  outcome = "published" =>
    LET opened == {Min(loop) : loop \in Loops(Values)}
    IN \A i \in DOMAIN published :
         Ids[i] # Unknown =>
           published[i] = IF Ids[i] \in opened THEN <<Ids[i]>> ELSE BestKnown(Values, Ids[i])

\* Both: one tree, the same for the same facts.
PublishesOneTree == TreeInOnePass /\ SameFactsSameRegistry

=============================================================================
