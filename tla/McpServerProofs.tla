--------------------------- MODULE McpServerProofs --------------------------
(***************************************************************************)
(* What holds of the MCP server for every session, cut into chunks in any  *)
(* way, and for any number of models in a comparison.                      *)
(***************************************************************************)
EXTENDS McpServer, FiniteSetTheorems, TLAPS

LEMMA LineType == ASSUME NEW l \in Lines PROVE Script[l] \in Line /\ IdOf(l) \in Ids
  <1>1. Script[l] \in Line
    BY McpAssumption DEF Lines
  <1>2. Script[l].id \in Ids \cup {NoId}
    BY <1>1 DEF Line
  <1>3. QED
    BY <1>1, <1>2, McpAssumption DEF IdOf

LEMMA LinesFinite == IsFiniteSet(Lines) /\ Len(Script) \in Nat
  BY McpAssumption, FS_Interval DEF Lines

LEMMA TurnsType ==
  ASSUME NEW l \in Lines PROVE Turns(l) \in Nat /\ Turns(l) <= MaxCompare
  BY LineType, McpAssumption DEF Turns, Line

LEMMA OutcomeType == Outcomes \subseteq Turn /\ Waiting \in Turn /\ Hung \in Turn
  BY DEF Turn

(* A line that begins to wait, waits for one to five turns.                   *)
LEMMA WaitingType ==
  ASSUME NEW l \in Lines, Waits(l), NEW turns, turns = [i \in 1 .. Turns(l) |-> Waiting]
  PROVE  turns \in Seq(Turn) /\ Len(turns) <= MaxCompare /\ turns # <<>>
  <1>1. Turns(l) \in Nat /\ Turns(l) <= MaxCompare /\ Turns(l) > 0
    BY TurnsType DEF Waits
  <1>2. turns \in Seq(Turn) /\ Len(turns) = Turns(l)
    BY <1>1, OutcomeType
  <1>3. QED
    BY <1>1, <1>2

(* The turns of a line, one of them changed. *)
LEMMA ChangedType ==
  ASSUME NEW old \in Seq(Turn), NEW i \in DOMAIN old, NEW o \in Turn,
         NEW turns, turns = [old EXCEPT ![i] = o]
  PROVE  turns \in Seq(Turn) /\ Len(turns) = Len(old) /\ turns # <<>>
  <1>1. turns \in Seq(Turn) /\ Len(turns) = Len(old)
    OBVIOUS
  <1>2. Len(old) > 0
    OBVIOUS
  <1>3. QED
    BY <1>1, <1>2

(* How a step of a call leaves the calls: it ends, or goes on.                *)
Ends(l) == /\ calls' = [calls EXCEPT ![l] = <<>>]
           /\ replies' = [replies EXCEPT ![IdOf(l)] = @ + 1]
GoesOn(l) == /\ \E turns \in Seq(Turn) : /\ calls' = [calls EXCEPT ![l] = turns]
                                         /\ Len(turns) = Len(calls[l]) /\ turns # <<>>
             /\ UNCHANGED replies

LEMMA MovesOf ==
  ASSUME TypeOK, NEW l \in Lines, CallMoves(l)
  PROVE  /\ Ends(l) \/ GoesOn(l)
         /\ calls[l] # <<>> /\ UNCHANGED <<key, arrived, cached>>
  <1>1. calls \in [Lines -> Seq(Turn)] /\ calls[l] \in Seq(Turn)
    BY DEF TypeOK
  <1>2. PICK i \in DOMAIN calls[l] : Hang(l, i) \/ \E o \in Outcomes : Settle(l, i, o)
    BY DEF CallMoves
  <1>3. calls[l] # <<>>
    BY <1>1, <1>2
  <1>4. CASE Hang(l, i)
    <2> DEFINE turns == [calls[l] EXCEPT ![i] = Hung]
    <2>1. turns \in Seq(Turn) /\ Len(turns) = Len(calls[l]) /\ turns # <<>>
      BY <1>1, OutcomeType, ChangedType
    <2>2. calls' = [calls EXCEPT ![l] = turns]
      BY <1>1, <1>4 DEF Hang
    <2>3. QED
      BY <1>3, <1>4, <2>1, <2>2 DEF Hang, GoesOn
  <1>5. ASSUME NEW o \in Outcomes, Settle(l, i, o)
        PROVE  (Ends(l) \/ GoesOn(l)) /\ UNCHANGED <<key, arrived, cached>>
    <2> DEFINE turns == [calls[l] EXCEPT ![i] = o]
    <2>1. turns \in Seq(Turn) /\ Len(turns) = Len(calls[l]) /\ turns # <<>>
      BY <1>1, OutcomeType, ChangedType
    <2>2. CASE Over(turns)
      BY <1>5, <2>2 DEF Settle, Ends
    <2>3. CASE ~Over(turns)
      <3>1. calls' = [calls EXCEPT ![l] = turns] /\ UNCHANGED <<replies, key, arrived, cached>>
        BY <1>5, <2>3 DEF Settle
      <3>2. QED
        BY <2>1, <3>1 DEF GoesOn
    <2>4. UNCHANGED <<key, arrived, cached>>
      BY <1>5 DEF Settle
    <2>5. QED
      BY <2>2, <2>3, <2>4
  <1>6. QED
    BY <1>2, <1>3, <1>4, <1>5 DEF Hang

-----------------------------------------------------------------------------
LEMMA TypeInit == Init => TypeOK
  <1> SUFFICES ASSUME Init PROVE TypeOK
    OBVIOUS
  <1>1. calls \in [Lines -> Seq(Turn)] /\ \A l \in Lines : calls[l] = <<>>
    BY DEF Init
  <1>2. Len(<<>>) <= MaxCompare
    BY McpAssumption
  <1>3. 0 \in 0 .. 2 * Len(Script)
    BY LinesFinite
  <1>4. replies \in [Ids -> Nat]
    BY DEF Init
  <1>5. QED
    BY <1>1, <1>2, <1>3, <1>4 DEF Init, TypeOK

LEMMA TypeStep == TypeOK /\ [Next]_vars => TypeOK'
  <1> SUFFICES ASSUME TypeOK, [Next]_vars PROVE TypeOK'
    OBVIOUS
  <1>1. ASSUME NEW n \in 1 .. 2 * Len(Script) - arrived, Data(n) PROVE TypeOK'
    <2>1. arrived' \in 0 .. 2 * Len(Script)
      BY <1>1, LinesFinite DEF Data, TypeOK
    <2>2. cached' \in BOOLEAN /\ (cached => cached')
      BY <1>1 DEF Data, TypeOK
    <2>3. ASSUME NEW l \in Lines
          PROVE  /\ calls'[l] \in Seq(Turn) /\ Len(calls'[l]) <= MaxCompare
                 /\ calls'[l] # <<>> => cached' /\ Runs(l)
      <3>1. CASE l \in Fresh(n) /\ Waits(l)
        <4>1. calls'[l] = [i \in 1 .. Turns(l) |-> Waiting]
          BY <1>1, <3>1 DEF Data
        <4>2. cached' /\ Runs(l)
          BY <1>1, <3>1 DEF Data, Waits
        <4>3. QED
          BY <3>1, <4>1, <4>2, WaitingType
      <3>2. CASE ~(l \in Fresh(n) /\ Waits(l))
        <4>1. calls'[l] = calls[l]
          BY <1>1, <3>2 DEF Data
        <4>2. QED
          BY <2>2, <4>1 DEF TypeOK
      <3>3. QED
        BY <3>1, <3>2
    <2>4. calls' \in [Lines -> Seq(Turn)]
      <3>1. calls' = [l \in Lines |-> calls'[l]]
        BY <1>1 DEF Data
      <3>2. QED
        BY <2>3, <3>1
    <2>5. replies' \in [Ids -> Nat]
      <3>1. ASSUME NEW x \in Ids
            PROVE  Cardinality({l \in Fresh(n) : RepliedTo(l) /\ ~Waits(l) /\ IdOf(l) = x}) \in Nat
        <4>1. {l \in Fresh(n) : RepliedTo(l) /\ ~Waits(l) /\ IdOf(l) = x} \subseteq Lines
          BY DEF Fresh, Complete
        <4>2. QED
          BY <4>1, LinesFinite, FS_Subset, FS_CardinalityType
      <3>2. QED
        BY <1>1, <3>1 DEF Data, TypeOK
    <2>6. QED
      BY <1>1, <2>1, <2>2, <2>3, <2>4, <2>5 DEF Data, TypeOK
  <1>2. ASSUME NEW l \in Lines, CallMoves(l) PROVE TypeOK'
    <2>1. calls[l] # <<>> /\ UNCHANGED <<key, arrived, cached>> /\ (Ends(l) \/ GoesOn(l))
      BY <1>2, MovesOf
    <2>2. CASE Ends(l)
      <3>1. IdOf(l) \in Ids /\ <<>> \in Seq(Turn) /\ Len(<<>>) <= MaxCompare
        BY LineType, McpAssumption
      <3>2. replies' \in [Ids -> Nat]
        BY <2>2, <3>1 DEF Ends, TypeOK
      <3>3. QED
        BY <2>1, <2>2, <3>1, <3>2 DEF Ends, TypeOK
    <2>3. CASE GoesOn(l)
      BY <2>1, <2>3 DEF GoesOn, TypeOK
    <2>4. QED
      BY <2>1, <2>2, <2>3
  <1>3. CASE UNCHANGED vars
    BY <1>3 DEF TypeOK, vars
  <1>4. QED
    BY <1>1, <1>2, <1>3 DEF Next, Idle

(* Every variable keeps its type: in particular no line ever waits for more   *)
(* than MaxCompare turns, whatever a host asks for (mcp/server.ts:163).       *)
THEOREM TypeCorrect == Spec => []TypeOK
  BY TypeInit, TypeStep, PTL DEF Spec

-----------------------------------------------------------------------------
(* Replies.  A chunk adds its lines, apart from those before it, to what was  *)
(* asked; they are answered or begin to wait.                                 *)

Asked(n, x) == {l \in Complete(n) : RepliedTo(l) /\ IdOf(l) = x}
Requested(x) == {k \in {l \in Complete(arrived) : Asks(l)} : IdOf(k) = x}
Mistaken(x) == {k \in {l \in Complete(arrived) : Notifies(l) /\ ~IsInitialized(l)} : IdOf(k) = x}
Open(x) == {l \in Lines : calls[l] # <<>> /\ IdOf(l) = x}

RepliesInv ==
  /\ \A l \in Lines : calls[l] # <<>> => l \in Complete(arrived)
  /\ \A x \in Ids : replies[x] + Cardinality(Open(x)) = Cardinality(Asked(arrived, x))

LEMMA SetsFinite ==
  ASSUME NEW S \in SUBSET Lines PROVE IsFiniteSet(S) /\ Cardinality(S) \in Nat
  BY LinesFinite, FS_Subset, FS_CardinalityType

LEMMA DisjointSum ==
  ASSUME NEW S \in SUBSET Lines, NEW T \in SUBSET Lines, S \cap T = {}
  PROVE  Cardinality(S \cup T) = Cardinality(S) + Cardinality(T)
  <1>1. /\ IsFiniteSet(S) /\ Cardinality(S) \in Nat
        /\ IsFiniteSet(T) /\ Cardinality(T) \in Nat
    BY SetsFinite
  <1>2. Cardinality(S \cup T) = Cardinality(S) + Cardinality(T) - Cardinality(S \cap T)
    BY <1>1, FS_Union
  <1>3. QED
    BY <1>1, <1>2, FS_EmptySet

LEMMA RepliesInit == Init => RepliesInv
  <1> SUFFICES ASSUME Init PROVE RepliesInv
    OBVIOUS
  <1>1. ASSUME NEW x \in Ids
        PROVE  /\ {l \in Lines : calls[l] # <<>> /\ IdOf(l) = x} = {}
               /\ {l \in Complete(arrived) : RepliedTo(l) /\ IdOf(l) = x} = {}
               /\ replies[x] = 0
    BY LinesFinite DEF Init, Complete, Lines
  <1>2. ASSUME NEW x \in Ids
        PROVE  replies[x] + Cardinality({l \in Lines : calls[l] # <<>> /\ IdOf(l) = x})
                 = Cardinality({l \in Complete(arrived) : RepliedTo(l) /\ IdOf(l) = x})
    <2>1. 0 + Cardinality({}) = Cardinality({})
      BY FS_EmptySet
    <2>2. QED
      BY <1>1, <2>1
  <1>3. QED
    BY <1>2 DEF Init, RepliesInv, Open, Asked

LEMMA DataReplies ==
  ASSUME TypeOK, RepliesInv, NEW n \in 1 .. 2 * Len(Script) - arrived, Data(n)
  PROVE  RepliesInv'
  <1>1. Complete(arrived') = Complete(arrived) \cup Fresh(n)
    <2>1. arrived' = arrived + n /\ arrived \in Nat /\ n \in Nat
      BY LinesFinite DEF Data, TypeOK
    <2>2. QED
      BY <2>1 DEF Complete, Fresh, Lines
  <1>2. Fresh(n) \subseteq Lines /\ Complete(arrived) \subseteq Lines
        /\ Complete(arrived) \cap Fresh(n) = {}
    BY DEF Fresh, Complete
  <1>3. ASSUME NEW l \in Lines
        PROVE  calls'[l] # <<>> <=> calls[l] # <<>> \/ (l \in Fresh(n) /\ Waits(l))
    <2>1. CASE l \in Fresh(n) /\ Waits(l)
      <3>1. calls'[l] = [i \in 1 .. Turns(l) |-> Waiting]
        BY <2>1 DEF Data
      <3>2. QED
        BY <2>1, <3>1, WaitingType
    <2>2. CASE ~(l \in Fresh(n) /\ Waits(l))
      BY <2>2 DEF Data
    <2>3. QED
      BY <2>1, <2>2
  <1>4. ASSUME NEW x \in Ids
        PROVE  replies'[x] + Cardinality(Open(x)') = Cardinality(Asked(arrived, x)')
    <2> DEFINE now == {l \in Fresh(n) : RepliedTo(l) /\ ~Waits(l) /\ IdOf(l) = x}
               later == {l \in Fresh(n) : Waits(l) /\ IdOf(l) = x}
    <2>1. /\ now \subseteq Lines /\ later \subseteq Lines /\ now \cap later = {}
          /\ Open(x) \subseteq Lines /\ Asked(arrived, x) \subseteq Lines
          /\ Open(x) \cap later = {} /\ Asked(arrived, x) \cap (now \cup later) = {}
      BY <1>2 DEF Open, Asked, RepliesInv
    <2>2. Open(x)' = Open(x) \cup later
      BY <1>2, <1>3 DEF Open
    <2>3. Asked(arrived, x)' = Asked(arrived, x) \cup (now \cup later)
      <3>1. \A l \in Lines : Waits(l) => RepliedTo(l)
        BY DEF Waits, Runs, RepliedTo
      <3>2. QED
        BY <1>1, <1>2, <3>1 DEF Asked
    <2>4. replies'[x] = replies[x] + Cardinality(now)
      BY DEF Data
    <2>5. replies[x] + Cardinality(Open(x)) = Cardinality(Asked(arrived, x))
      BY DEF RepliesInv, Open, Asked
    <2>6. /\ Cardinality(Open(x)') = Cardinality(Open(x)) + Cardinality(later)
          /\ Cardinality(Asked(arrived, x)')
               = Cardinality(Asked(arrived, x)) + (Cardinality(now) + Cardinality(later))
      <3>1. Cardinality(Open(x) \cup later) = Cardinality(Open(x)) + Cardinality(later)
        BY <2>1, DisjointSum
      <3>2. Cardinality(now \cup later) = Cardinality(now) + Cardinality(later)
        BY <2>1, DisjointSum
      <3>3. now \cup later \in SUBSET Lines
        BY <2>1
      <3>4. Cardinality(Asked(arrived, x) \cup (now \cup later))
              = Cardinality(Asked(arrived, x)) + Cardinality(now \cup later)
        BY <2>1, <3>3, DisjointSum
      <3>5. QED
        BY <2>2, <2>3, <3>1, <3>2, <3>4
    <2>7. /\ Cardinality(now) \in Nat /\ Cardinality(later) \in Nat /\ replies[x] \in Nat
          /\ Cardinality(Open(x)) \in Nat /\ Cardinality(Asked(arrived, x)) \in Nat
      BY <2>1, SetsFinite DEF TypeOK
    <2>8. QED
      BY <2>4, <2>5, <2>6, <2>7
  <1>5. \A l \in Lines : calls'[l] # <<>> => l \in Complete(arrived')
    BY <1>1, <1>3 DEF RepliesInv
  <1>6. QED
    BY <1>4, <1>5 DEF RepliesInv, Open, Asked

LEMMA MoveReplies ==
  ASSUME TypeOK, RepliesInv, NEW l \in Lines, CallMoves(l)
  PROVE  RepliesInv'
  <1>1. /\ calls[l] # <<>> /\ UNCHANGED <<key, arrived, cached>>
        /\ Ends(l) \/ GoesOn(l)
        /\ calls \in [Lines -> Seq(Turn)] /\ replies \in [Ids -> Nat]
        /\ IdOf(l) \in Ids
    BY MovesOf, LineType DEF TypeOK
  <1>2. CASE GoesOn(l)
    <2>1. UNCHANGED replies /\ \A k \in Lines : calls'[k] # <<>> <=> calls[k] # <<>>
      BY <1>1, <1>2 DEF GoesOn
    <2>2. \A x \in Ids : {k \in Lines : calls'[k] # <<>> /\ IdOf(k) = x}
                         = {k \in Lines : calls[k] # <<>> /\ IdOf(k) = x}
      BY <2>1
    <2>3. QED
      BY <1>1, <2>1, <2>2 DEF RepliesInv, Open, Asked
  <1>3. CASE Ends(l)
    <2>1. \A k \in Lines : calls'[k] # <<>> <=> k # l /\ calls[k] # <<>>
      BY <1>1, <1>3 DEF Ends
    <2>2. ASSUME NEW x \in Ids
          PROVE  replies'[x] + Cardinality(Open(x)') = replies[x] + Cardinality(Open(x))
      <3>0. /\ IsFiniteSet(Open(x)) /\ Cardinality(Open(x)) \in Nat
            /\ IsFiniteSet(Open(x) \ {l}) /\ Cardinality(Open(x) \ {l}) \in Nat
        <4>1. Open(x) \in SUBSET Lines /\ Open(x) \ {l} \in SUBSET Lines
          BY DEF Open
        <4>2. QED
          BY <4>1, SetsFinite
      <3>1. CASE x = IdOf(l)
        <4>1. Open(x)' = Open(x) \ {l} /\ l \in Open(x)
          BY <1>1, <2>1, <3>1 DEF Open
        <4>2. replies'[x] = replies[x] + 1 /\ replies[x] \in Nat
          BY <1>1, <1>3, <3>1 DEF Ends
        <4>3. Cardinality(Open(x) \ {l}) = Cardinality(Open(x)) - 1
          BY <3>0, <4>1, FS_RemoveElement
        <4>4. QED
          BY <3>0, <4>1, <4>2, <4>3
      <3>2. CASE x # IdOf(l)
        <4>1. Open(x)' = Open(x)
          BY <2>1, <3>2 DEF Open
        <4>2. replies'[x] = replies[x]
          BY <1>1, <1>3, <3>2 DEF Ends
        <4>3. QED
          BY <4>1, <4>2
      <3>3. QED
        BY <3>1, <3>2
    <2>3. QED
      BY <1>1, <2>1, <2>2 DEF RepliesInv, Open
  <1>4. QED
    BY <1>1, <1>2, <1>3

(* Every request is answered, and once: however a host cuts its lines into    *)
(* chunks and however long and in which order calls take, the replies with an *)
(* id and the calls that wait under it are the requests made with it, and,    *)
(* under the id null, at most the notifications (mcp/server.ts:368-390).      *)
THEOREM OneReplyEach == Spec => []EveryRequestOneReply
  <1>1. TypeOK /\ RepliesInv /\ [Next]_vars => RepliesInv'
    <2> SUFFICES ASSUME TypeOK, RepliesInv, [Next]_vars PROVE RepliesInv'
      OBVIOUS
    <2>1. CASE UNCHANGED vars
      BY <2>1 DEF vars, RepliesInv, Open, Asked
    <2>2. QED
      BY <2>1, DataReplies, MoveReplies DEF Next, Idle
  <1>2. TypeOK /\ RepliesInv => EveryRequestOneReply
    <2> SUFFICES ASSUME TypeOK, RepliesInv, NEW x \in Ids
                 PROVE  replies[x] + Cardinality(Open(x))
                          \in Cardinality(Requested(x)) ..
                              Cardinality(Requested(x)) + Cardinality(Mistaken(x))
      BY DEF EveryRequestOneReply, Open, Requested, Mistaken
    <2>1. /\ Requested(x) \in SUBSET Lines /\ Mistaken(x) \in SUBSET Lines
          /\ Requested(x) \cap Mistaken(x) = {}
          /\ Asked(arrived, x) = Requested(x) \cup Mistaken(x)
      BY DEF Requested, Mistaken, Asked, Asks, Notifies, IsInitialized, RepliedTo, Complete
    <2>2. Cardinality(Asked(arrived, x)) = Cardinality(Requested(x)) + Cardinality(Mistaken(x))
          /\ Cardinality(Requested(x)) \in Nat /\ Cardinality(Mistaken(x)) \in Nat
      BY <2>1, DisjointSum, SetsFinite
    <2>3. replies[x] + Cardinality(Open(x)) = Cardinality(Asked(arrived, x))
      BY DEF RepliesInv
    <2>4. QED
      BY <2>2, <2>3
  <1>3. QED
    BY <1>1, <1>2, RepliesInit, TypeCorrect, PTL DEF Spec
-----------------------------------------------------------------------------
(* The table of a comparison.  Of two turns one goes before the other, by its *)
(* cost or by its place in the request; a turn's place is one more than the   *)
(* number of those that go before it.                                         *)
Before(turns, i, j) ==
  Cheaper(turns[i], turns[j]) \/ (i < j /\ ~Cheaper(turns[j], turns[i]))
AllBefore(turns, i) == {j \in DOMAIN turns : Before(turns, j, i)}

LEMMA PlaceIs ==
  ASSUME NEW turns, NEW i PROVE Place(turns, i) = 1 + Cardinality(AllBefore(turns, i))
  BY DEF Place, AllBefore, Before

LEMMA CostType ==
  ASSUME NEW t \in Turn
  PROVE  /\ t.cost \in Nat \cup {Undisclosed} /\ t.cost \in Int
         /\ t.cost # Undisclosed => t.at = "answered" /\ t.cost \in Nat
  BY McpAssumption
     DEF Turn, Outcomes, Failed, Answered, Waiting, Hung, Undisclosed

LEMMA OrderOfCosts ==
  ASSUME NEW a \in Int, NEW b \in Int, NEW c \in Int, NEW i \in Int, NEW j \in Int, NEW k \in Int
  PROVE  LET cheaper(x, y) == x # -1 /\ (y = -1 \/ x < y)
             before(x, m, y, n) == cheaper(x, y) \/ (m < n /\ ~cheaper(y, x))
         IN  /\ ~before(a, i, a, i)
             /\ i # j => before(a, i, b, j) \/ before(b, j, a, i)
             /\ before(a, i, b, j) /\ before(b, j, c, k) => before(a, i, c, k)
  OBVIOUS

LEMMA BeforeIsAnOrder ==
  ASSUME NEW turns \in Seq(Turn), NEW i \in DOMAIN turns, NEW j \in DOMAIN turns,
         NEW k \in DOMAIN turns
  PROVE  /\ ~Before(turns, i, i)
         /\ i # j => Before(turns, i, j) \/ Before(turns, j, i)
         /\ Before(turns, i, j) /\ Before(turns, j, k) => Before(turns, i, k)
  <1>1. PICK a \in Int, b \in Int, c \in Int :
          a = turns[i].cost /\ b = turns[j].cost /\ c = turns[k].cost
    BY CostType
  <1>2. i \in Int /\ j \in Int /\ k \in Int
    OBVIOUS
  <1>3. QED
    BY SMTT(20), <1>1, <1>2, OrderOfCosts DEF Before, Cheaper, Undisclosed

LEMMA AllBeforeIsFinite ==
  ASSUME NEW turns \in Seq(Turn), NEW i \in DOMAIN turns
  PROVE  /\ IsFiniteSet(DOMAIN turns) /\ Cardinality(DOMAIN turns) = Len(turns)
         /\ IsFiniteSet(AllBefore(turns, i)) /\ Cardinality(AllBefore(turns, i)) \in Nat
         /\ AllBefore(turns, i) \subseteq DOMAIN turns
  <1>1. DOMAIN turns = 1 .. Len(turns) /\ Len(turns) \in Nat /\ Len(turns) >= 1
    OBVIOUS
  <1>2. IsFiniteSet(DOMAIN turns) /\ Cardinality(DOMAIN turns) = Len(turns)
    <2>1. 1 \in Int /\ Len(turns) \in Int /\ ~(1 > Len(turns))
      BY <1>1
    <2>2. /\ IsFiniteSet(1 .. Len(turns))
          /\ Cardinality(1 .. Len(turns)) = IF 1 > Len(turns) THEN 0 ELSE Len(turns) - 1 + 1
      BY <2>1, FS_Interval, Zenon
    <2>3. QED
      BY <1>1, <2>1, <2>2
  <1>3. AllBefore(turns, i) \subseteq DOMAIN turns
    BY DEF AllBefore
  <1>4. QED
    BY <1>2, <1>3, FS_Subset, FS_CardinalityType

LEMMA PlacesGrow ==
  ASSUME NEW turns \in Seq(Turn), NEW i \in DOMAIN turns, NEW j \in DOMAIN turns,
         Before(turns, i, j)
  PROVE  Place(turns, i) < Place(turns, j)
  <1>1. i \notin AllBefore(turns, i) /\ i \in AllBefore(turns, j)
    BY BeforeIsAnOrder DEF AllBefore
  <1>2. AllBefore(turns, i) \cup {i} \in SUBSET AllBefore(turns, j)
    <2>1. \A k \in AllBefore(turns, i) : k \in AllBefore(turns, j)
      BY BeforeIsAnOrder DEF AllBefore
    <2>2. QED
      BY <1>1, <2>1
  <1>3. /\ Cardinality(AllBefore(turns, i)) \in Nat /\ IsFiniteSet(AllBefore(turns, i))
        /\ Cardinality(AllBefore(turns, j)) \in Nat /\ IsFiniteSet(AllBefore(turns, j))
    BY AllBeforeIsFinite
  <1>4. Cardinality(AllBefore(turns, i) \cup {i}) = Cardinality(AllBefore(turns, i)) + 1
    BY <1>1, <1>3, FS_AddElement
  <1>5. Cardinality(AllBefore(turns, i) \cup {i}) <= Cardinality(AllBefore(turns, j))
    BY <1>2, <1>3, FS_Subset
  <1>6. QED
    BY <1>3, <1>4, <1>5, PlaceIs

LEMMA PlacesAreInRange ==
  ASSUME NEW turns \in Seq(Turn), NEW i \in DOMAIN turns
  PROVE  Place(turns, i) \in DOMAIN turns
  <1>1. AllBefore(turns, i) \in SUBSET (DOMAIN turns \ {i})
    BY BeforeIsAnOrder DEF AllBefore
  <1>2. /\ IsFiniteSet(DOMAIN turns) /\ Cardinality(DOMAIN turns) = Len(turns)
        /\ Cardinality(AllBefore(turns, i)) \in Nat
    BY AllBeforeIsFinite
  <1>3. /\ IsFiniteSet(DOMAIN turns \ {i})
        /\ Cardinality(DOMAIN turns \ {i}) = Cardinality(DOMAIN turns) - 1
    BY <1>2, FS_RemoveElement
  <1>4. Cardinality(AllBefore(turns, i)) <= Len(turns) - 1
    BY <1>1, <1>2, <1>3, FS_Subset
  <1>5. DOMAIN turns = 1 .. Len(turns) /\ Len(turns) \in Nat
    OBVIOUS
  <1>6. QED
    BY <1>2, <1>4, <1>5, PlaceIs

(* Every place is taken, by one turn.                                         *)
LEMMA SortedIsAPermutation ==
  ASSUME NEW turns \in Seq(Turn)
  PROVE  /\ DOMAIN Sorted(turns) = DOMAIN turns
         /\ \A k \in DOMAIN turns :
              Sorted(turns)[k] \in DOMAIN turns /\ Place(turns, Sorted(turns)[k]) = k
         /\ \A i \in DOMAIN turns : Sorted(turns)[Place(turns, i)] = i
  <1> DEFINE D == DOMAIN turns
             place == [i \in D |-> Place(turns, i)]
  <1>1. IsFiniteSet(D)
    <2>1. D = 1 .. Len(turns) /\ Len(turns) \in Nat
      OBVIOUS
    <2>2. QED
      BY <2>1, FS_Interval
  <1>2. \A i, j \in D : Place(turns, i) = Place(turns, j) => i = j
    <2>1. SUFFICES ASSUME NEW i \in D, NEW j \in D, i # j
                   PROVE  Place(turns, i) # Place(turns, j)
      OBVIOUS
    <2>2. Place(turns, i) \in Int /\ Place(turns, j) \in Int
      BY PlacesAreInRange
    <2>3. Before(turns, i, j) \/ Before(turns, j, i)
      BY <2>1, BeforeIsAnOrder
    <2>4. Place(turns, i) < Place(turns, j) \/ Place(turns, j) < Place(turns, i)
      BY <2>3, PlacesGrow
    <2>5. QED
      BY <2>2, <2>4
  <1>3. place \in Injection(D, D)
    <2>1. place \in [D -> D]
      BY PlacesAreInRange
    <2>2. \A i, j \in D : place[i] = place[j] => i = j
      BY <1>2
    <2> HIDE DEF place, D
    <2>3. QED
      BY <2>1, <2>2 DEF Injection, IsInjective
  <1>4. place \in Surjection(D, D)
    <2> HIDE DEF place, D
    <2>1. QED
      BY <1>1, <1>3, FS_Injection
  <1>5. \A k \in D : \E i \in D : Place(turns, i) = k
    <2>1. \A k \in D : \E i \in D : place[i] = k
      <3> HIDE DEF place, D
      <3>1. QED
        BY <1>4 DEF Surjection
    <2>2. QED
      BY <2>1
  <1>6. DOMAIN Sorted(turns) = D /\ \A k \in D :
          Sorted(turns)[k] \in D /\ Place(turns, Sorted(turns)[k]) = k
    BY <1>5 DEF Sorted
  <1>7. ASSUME NEW i \in D PROVE Sorted(turns)[Place(turns, i)] = i
    BY <1>2, <1>6, PlacesAreInRange
  <1>8. QED
    BY <1>6, <1>7

(* A call has all its turns from its first event to its last, and a table is  *)
(* made when they are over.                                                   *)
ShownInv ==
  /\ \A l \in Lines : calls[l] # <<>> => Len(calls[l]) = Turns(l)
  /\ \A s \in shown : /\ s.line \in Lines /\ s.turns \in Seq(Turn)
                      /\ Len(s.turns) = Turns(s.line) /\ s.order = Sorted(s.turns)

LEMMA ShownInit == Init => ShownInv
  BY DEF Init, ShownInv

LEMMA ShownStep == TypeOK /\ ShownInv /\ [Next]_vars => ShownInv'
  <1> SUFFICES ASSUME TypeOK, ShownInv, [Next]_vars PROVE ShownInv'
    OBVIOUS
  <1>1. ASSUME NEW n \in 1 .. 2 * Len(Script) - arrived, Data(n) PROVE ShownInv'
    <2>1. ASSUME NEW l \in Lines, calls'[l] # <<>> PROVE Len(calls'[l]) = Turns(l)
      <3>1. CASE l \in Fresh(n) /\ Waits(l)
        <4>1. calls'[l] = [i \in 1 .. Turns(l) |-> Waiting]
          BY <1>1, <3>1 DEF Data
        <4>2. QED
          BY <4>1, TurnsType
      <3>2. CASE ~(l \in Fresh(n) /\ Waits(l))
        <4>1. calls'[l] = calls[l]
          BY <1>1, <3>2 DEF Data
        <4>2. QED
          BY <2>1, <4>1 DEF ShownInv
      <3>3. QED
        BY <3>1, <3>2
    <2>2. shown' = shown
      BY <1>1 DEF Data
    <2>3. QED
      BY <2>1, <2>2 DEF ShownInv
  <1>2. ASSUME NEW l \in Lines, CallMoves(l) PROVE ShownInv'
    <2>1. calls[l] # <<>> /\ (Ends(l) \/ GoesOn(l))
      BY <1>2, MovesOf
    <2>2. calls \in [Lines -> Seq(Turn)] /\ Len(calls[l]) = Turns(l)
      BY <2>1 DEF TypeOK, ShownInv
    <2>3. ASSUME NEW k \in Lines, calls'[k] # <<>> PROVE Len(calls'[k]) = Turns(k)
      <3>1. CASE k = l
        BY <2>1, <2>2, <2>3, <3>1 DEF Ends, GoesOn
      <3>2. CASE k # l
        <4>1. calls'[k] = calls[k]
          BY <2>1, <2>2, <3>2 DEF Ends, GoesOn
        <4>2. QED
          BY <2>3, <4>1 DEF ShownInv
      <3>3. QED
        BY <3>1, <3>2
    <2>4. PICK i \in DOMAIN calls[l] : Hang(l, i) \/ \E o \in Outcomes : Settle(l, i, o)
      BY <1>2 DEF CallMoves
    <2>5. ASSUME NEW o \in Outcomes, Settle(l, i, o), shown' # shown
          PROVE  \E turns \in Seq(Turn) :
                   /\ Len(turns) = Turns(l)
                   /\ shown' = shown \cup {[line |-> l, turns |-> turns, order |-> Sorted(turns)]}
      <3>1. PICK turns : turns = [calls[l] EXCEPT ![i] = o]
        OBVIOUS
      <3>2. turns \in Seq(Turn) /\ Len(turns) = Turns(l)
        BY <2>2, <3>1, OutcomeType, ChangedType
      <3>3. shown' = shown \cup {[line |-> l, turns |-> turns, order |-> Sorted(turns)]}
        BY <2>5, <3>1 DEF Settle
      <3>4. QED
        BY <3>2, <3>3
    <2>6. CASE shown' = shown
      BY <2>3, <2>6 DEF ShownInv
    <2>7. CASE shown' # shown
      <3>1. PICK turns \in Seq(Turn) :
              /\ Len(turns) = Turns(l)
              /\ shown' = shown \cup {[line |-> l, turns |-> turns, order |-> Sorted(turns)]}
        BY <2>4, <2>5, <2>7 DEF Hang
      <3>2. QED
        BY <2>3, <3>1 DEF ShownInv
    <2>8. QED
      BY <2>6, <2>7
  <1>3. CASE UNCHANGED vars
    BY <1>3 DEF ShownInv, vars
  <1>4. QED
    BY <1>1, <1>2, <1>3 DEF Next, Idle

(* "Cheapest first; failures sink to the bottom" (mcp/server.ts:190): for any *)
(* number of models and whichever of them fail or keep their cost to          *)
(* themselves, the table of a comparison shows each of them once, and above   *)
(* an answer that tells its cost only answers that cost no more.              *)
THEOREM TablesAreSorted == Spec => []CheapestFirst
  <1>1. ShownInv => CheapestFirst
    <2> SUFFICES ASSUME ShownInv, NEW s \in shown
                 PROVE  /\ {s.order[k] : k \in DOMAIN s.order} = 1 .. Turns(s.line)
                        /\ \A j, k \in DOMAIN s.order :
                             j < k /\ s.turns[s.order[k]].cost # Undisclosed =>
                               /\ s.turns[s.order[j]].at = "answered"
                               /\ s.turns[s.order[j]].cost \in 0 .. s.turns[s.order[k]].cost
      BY DEF CheapestFirst
    <2>1. PICK turns \in Seq(Turn) :
            turns = s.turns /\ Len(turns) = Turns(s.line) /\ s.order = Sorted(turns)
      BY DEF ShownInv
    <2>2. DOMAIN turns = 1 .. Turns(s.line) /\ DOMAIN turns \subseteq Int
      BY <2>1
    <2>3. PICK order : order = Sorted(turns)
      OBVIOUS
    <2>4. /\ DOMAIN order = DOMAIN turns
          /\ \A k \in DOMAIN turns : order[k] \in DOMAIN turns /\ Place(turns, order[k]) = k
          /\ \A i \in DOMAIN turns : order[Place(turns, i)] = i
      BY <2>3, SortedIsAPermutation
    <2>5. {order[k] : k \in DOMAIN order} = DOMAIN turns
      <3>1. \A i \in DOMAIN turns : \E k \in DOMAIN order : order[k] = i
        BY <2>4, PlacesAreInRange
      <3>2. \A k \in DOMAIN order : order[k] \in DOMAIN turns
        BY <2>4
      <3>3. QED
        BY <3>1, <3>2
    <2>6. ASSUME NEW j \in DOMAIN order, NEW k \in DOMAIN order, j < k,
                 turns[order[k]].cost # Undisclosed
          PROVE  /\ turns[order[j]].at = "answered"
                 /\ turns[order[j]].cost \in 0 .. turns[order[k]].cost
      <3>1. PICK a \in DOMAIN turns, b \in DOMAIN turns :
              a = order[j] /\ b = order[k] /\ Place(turns, a) = j /\ Place(turns, b) = k
        BY <2>4, <2>6
      <3>2. j \in Int /\ k \in Int
        BY <2>2, <2>4
      <3>3. Before(turns, a, b)
        <4>1. a # b
          BY <2>6, <3>1, <3>2
        <4>2. ~Before(turns, b, a)
          <5>1. Before(turns, b, a) => k < j
            BY <3>1, PlacesGrow
          <5>2. QED
            BY <2>6, <3>2, <5>1
        <4>3. QED
          BY <4>1, <4>2, BeforeIsAnOrder
      <3>4. turns[a] \in Turn /\ turns[b] \in Turn
        OBVIOUS
      <3>5. turns[a].cost # Undisclosed /\ turns[a].cost <= turns[b].cost
        BY <2>6, <3>1, <3>3, <3>4, CostType DEF Before, Cheaper
      <3>6. QED
        BY <2>6, <3>1, <3>4, <3>5, CostType
    <2>7. QED
      BY <2>1, <2>2, <2>3, <2>5, <2>6
  <1>2. QED
    BY <1>1, TypeCorrect, ShownInit, ShownStep, PTL DEF Spec
=============================================================================
