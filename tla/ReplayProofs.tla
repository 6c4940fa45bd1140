---------------------------- MODULE ReplayProofs ----------------------------
(***************************************************************************)
(* What holds of the replay viewer for any packets, times, capacity and    *)
(* number of objects: its types, that an object is not drawn without a     *)
(* mesh that was sent before it, that nothing calls into a gui that is     *)
(* gone, and, where no frame is longer than the window, that what is drawn *)
(* is the newest.                                                          *)
(***************************************************************************)
EXTENDS Replay, SequenceTheorems, WellFoundedInduction, TLAPS

(* What sorting leaves are the items there were. *)
LEMMA SortedItems ==
  ASSUME NEW s \in Seq(Item), NEW t \in Sorted(s)
  PROVE  /\ t \in Seq(Item)
         /\ \A k \in DOMAIN t : \E j \in DOMAIN s : t[k] = s[j]
<1>1. PICK f \in Bijection(DOMAIN s, DOMAIN s) : t = [k \in DOMAIN s |-> s[f[k]]]
  BY DEF Sorted
<1>2. f \in [DOMAIN s -> DOMAIN s]
  BY DEF Bijection, Injection
<1>3. DOMAIN s = 1..Len(s) /\ Len(s) \in Nat
  OBVIOUS
<1>4. t \in [1..Len(s) -> Item]
  BY <1>1, <1>2, <1>3
<1>5. t \in Seq(Item)
  BY <1>3, <1>4
<1> QED
  BY <1>1, <1>2, <1>3, <1>4, <1>5

(* Up to StableUpTo items, sorting leaves alone what is sorted. *)
LEMMA SortedStays ==
  ASSUME NEW s \in Seq(Item), NEW t \in Sorted(s), Len(s) <= StableUpTo,
         \A j, k \in DOMAIN s : j < k => s[j].time <= s[k].time
  PROVE  t = s
<1> DEFINE n == Len(s)
<1>0. DOMAIN s = 1..n /\ n \in Nat /\ \A k \in 1..n : s[k].time \in Nat
  <2>1. \A k \in 1..Len(s) : s[k] \in Item
    BY ElementOfSeq
  <2> QED
    BY <2>1, LenProperties DEF Item
<1>1. PICK f \in Bijection(1..n, 1..n) : SortedBy(s, f) /\ t = [k \in 1..n |-> s[f[k]]]
  BY <1>0 DEF Sorted
<1>2. f \in [1..n -> 1..n] /\ \A m \in 1..n : \E k \in 1..n : f[k] = m
  BY DEF Bijection, Injection, Surjection, IsInjective
<1> HIDE DEF n
<1>3. ASSUME NEW j \in 1..n, NEW k \in 1..n, j < k PROVE f[j] < f[k]
  <2>1. /\ s[f[j]].time <= s[f[k]].time
        /\ s[f[j]].time = s[f[k]].time => f[j] < f[k]
    BY <1>0, <1>1, <1>3 DEF SortedBy, n
  <2>2. f[j] \in 1..n /\ f[k] \in 1..n
    BY <1>2
  <2>3. CASE s[f[j]].time = s[f[k]].time
    BY <2>1, <2>3
  <2>4. CASE s[f[j]].time < s[f[k]].time
    <3>1. f[k] < f[j] => s[f[k]].time <= s[f[j]].time
      BY <1>0, <2>2
    <3>2. f[j] # f[k]
      BY <1>0, <2>2, <2>4
    <3> QED
      BY <1>0, <2>2, <2>4, <3>1, <3>2
  <2> QED
    BY <1>0, <2>1, <2>2, <2>3, <2>4
(* The first place that f does not keep would be left to no other. *)
<1> DEFINE Moved == {k \in 1..n : f[k] # k}
<1>4. SUFFICES ASSUME Moved # {} PROVE FALSE
  <2>1. Moved = {} => \A k \in 1..n : f[k] = k
    OBVIOUS
  <2>2. ASSUME \A k \in 1..n : f[k] = k PROVE t = [k \in 1..n |-> s[k]]
    BY <1>1, <2>2
  <2> QED
    BY <1>0, <1>4, <2>1, <2>2, LenProperties DEF n
<1>5. PICK k \in Moved : \A j \in Moved : ~(<<j, k>> \in OpToRel(<, Nat))
  <2>1. Moved \subseteq Nat
    BY <1>0
  <2> HIDE DEF Moved
  <2> QED
    BY <1>4, <2>1, NatLessThanWellFounded, WFMin
<1>6. k \in 1..n /\ f[k] # k /\ k \in Nat
  BY <1>0
<1>7. ASSUME NEW j \in 1..n, j < k PROVE f[j] = j
  <2>1. <<j, k>> \in OpToRel(<, Nat)
    BY <1>0, <1>6, <1>7 DEF OpToRel
  <2>2. j \notin Moved
    BY <1>5, <2>1
  <2> QED
    BY <2>2
<1>8. PICK m \in 1..n : f[m] = k
  BY <1>2, <1>6
<1>9. ~(m < k) /\ m # k
  BY <1>6, <1>7, <1>8
<1>10. f[k] < k
  BY <1>0, <1>3, <1>6, <1>8, <1>9
<1>11. PICK i \in 1..n : i = f[k]
  BY <1>2, <1>6
<1>12. f[i] = i
  BY <1>7, <1>10, <1>11
<1>13. f[i] < f[k]
  BY <1>3, <1>6, <1>10, <1>11
<1> QED
  BY <1>0, <1>11, <1>12, <1>13

(* Nor does it leave fewer. *)
LEMMA SortedLength ==
  ASSUME NEW s \in Seq(Item), NEW t \in Sorted(s)
  PROVE  Len(t) = Len(s)
<1>1. PICK f : t = [k \in DOMAIN s |-> s[f[k]]]
  BY DEF Sorted
<1>2. DOMAIN s = 1..Len(s) /\ Len(s) \in Nat /\ t \in Seq(Item)
  BY LenProperties, SortedItems
<1>3. DOMAIN t = 1..Len(s)
  BY <1>1, <1>2
<1>4. DOMAIN t = 1..Len(t) /\ Len(t) \in Nat
  BY <1>2, LenProperties
<1> QED
  BY <1>2, <1>3, <1>4

(* What getRange returns are items. *)
LEMMA RangeItems ==
  ASSUME items \in Seq(Item), GetRange
  PROVE  /\ todo' \in Seq(Item)
         /\ \A k \in DOMAIN todo' : \E j \in DOMAIN items : todo'[k] = items[j]
<1>1. PICK lo \in 1..Len(items)+1, hi \in 0..Len(items) : todo' = SubSeq(items, lo, hi)
  BY DEF GetRange
<1>2. /\ todo' \in Seq(Item)
      /\ Len(todo') = IF lo <= hi THEN hi - lo + 1 ELSE 0
      /\ \A k \in 1..hi-lo+1 : todo'[k] = items[lo + k - 1]
  BY <1>1, SubSeqProperties
<1>3. \A k \in DOMAIN todo' : k \in 1..hi-lo+1 /\ lo + k - 1 \in DOMAIN items
  BY <1>2
<1> QED
  BY <1>2, <1>3

(* The first item that is still to be decoded, and the others. *)
LEMMA TodoItems ==
  ASSUME todo \in Seq(Item), todo # <<>>
  PROVE  /\ Head(todo) = todo[1] /\ 1 \in DOMAIN todo /\ Head(todo) \in Item
         /\ Tail(todo) \in Seq(Item)
         /\ \A k \in DOMAIN Tail(todo) : k + 1 \in DOMAIN todo /\ Tail(todo)[k] = todo[k + 1]
BY HeadTailProperties

-----------------------------------------------------------------------------
AddingPc == {"lookup", "callback", "decode", "push"}

(* The packet the server adds is one that was sent, and it calls back for     *)
(* meshes only.                                                               *)
HandInv ==
  /\ serverPc \in AddingPc => taken >= 1 /\ sent[taken].kind # "stop"
  /\ serverPc \in {"callback", "decode"} => sent[taken].kind = "mesh"
  /\ serverPc \in AddingPc \ {"lookup"} => inHand.id = taken

(* The packets before the one that is being added. *)
Added(n) == n \in 1..taken /\ (n = taken => serverPc \notin AddingPc)

(* Items stand for packets that have been added. *)
ItemsAdded ==
  /\ \A k \in DOMAIN items : Added(items[k].id) /\ sent[items[k].id].kind # "stop"
  /\ \A k \in DOMAIN todo : Added(todo[k].id) /\ sent[todo[k].id].kind # "stop"

(* Packets of meshes and objects carry names of such. *)
Named(p) ==
  /\ p.kind = "mesh" => p.name \in Meshes
  /\ p.kind = "object" => p.name \in Objects

WellNamed == Named(writing) /\ \A n \in DOMAIN sent : Named(sent[n])

TypeInv == ReplayTypeOK /\ HandInv /\ ItemsAdded /\ WellNamed

(* It holds initially. *)
LEMMA TypeInit == Init => TypeInv
<1> SUFFICES ASSUME Init PROVE TypeInv
  OBVIOUS
<1>1. shown \in [Objects -> [id : Nat, mesh : Meshes \cup {NoMesh}]]
  BY DEF Init
<1>2. writing \in Packet
  BY ReplayAssumption DEF Init
<1>3. inHand \in Item
  BY DEF Init, Item
<1>4. ReplayTypeOK
  <2>1. sent \in Seq(Packet) /\ taken \in 0..Len(sent)
    BY DEF Init
  <2>2. items \in Seq(Item) /\ todo \in Seq(Item)
    BY DEF Init
  <2>3. meshMap \subseteq Meshes /\ ranged \in Nat /\ currentTime \in Nat /\ viewerTime = -1
    BY DEF Init
  <2> QED
    BY <1>1, <1>2, <1>3, <2>1, <2>2, <2>3 DEF Init, ReplayTypeOK
<1>5. HandInv /\ ItemsAdded /\ WellNamed
  BY ReplayAssumption DEF Init, HandInv, ItemsAdded, AddingPc, WellNamed, Named
<1> QED
  BY <1>4, <1>5 DEF TypeInv

(* Every step of the two threads keeps it. *)
LEMMA TypeStep == TypeInv /\ [Next]_vars => TypeInv'
<1> SUFFICES ASSUME TypeInv, [Next]_vars PROVE TypeInv'
  OBVIOUS
<1> USE ReplayAssumption DEF TypeInv, ReplayTypeOK
<1>0. WellNamed'
  <2>1. CASE Write
    BY <2>1 DEF Write, WellNamed
  <2>2. CASE ClientSends
    BY <2>2 DEF ClientSends, WellNamed, Named
  <2>3. CASE Finish
    <3>1. PICK p \in Packets : writing' = [p EXCEPT !.kind = "stop"]
      BY <2>3 DEF Finish
    <3>2. writing'.kind = "stop"
      BY <3>1 DEF Packet
    <3> QED
      BY <2>3, <3>2 DEF Finish, WellNamed, Named
  <2>4. CASE UNCHANGED <<sent, writing>>
    BY <2>4 DEF WellNamed, Named
  <2> QED
    BY <2>1, <2>2, <2>3, <2>4
    DEF Next, ServerStep, MainStep, Done, Take, AddLock, CallbackLock, CallbackDecode, Push,
        ServerEnds, Update, UserInput, AskMeshes, DecodeMesh, MeshesDecoded, AskObjects,
        DecodeObject, ObjectsDecoded, DrawLock, Draw, EndFrame, StopServer, Join, DestroyGui,
        vars, mainVars
<1>1. CASE Take
  <2>1. ReplayTypeOK'
    BY <1>1 DEF Take, mutexes, replayVars, guiVars, lifeVars, mainVars, historyVars
  <2>2. HandInv'
    BY <1>1 DEF Take, HandInv, AddingPc
  <2>3. ItemsAdded'
    BY <1>1 DEF Take, ItemsAdded, Added, AddingPc, replayVars, guiVars
  <2> HIDE DEF ReplayTypeOK
  <2> QED BY <1>0, <2>1, <2>2, <2>3
<1>2. CASE AddLock
  <2>1. ReplayTypeOK'
    BY <1>2 DEF AddLock, HandInv, AddingPc, Item, replayVars, guiVars, lifeVars, mainVars,
                historyVars
  <2>2. HandInv'
    BY <1>2 DEF AddLock, HandInv, AddingPc, HasCallback
  <2>3. ItemsAdded'
    BY <1>2 DEF AddLock, ItemsAdded, Added, AddingPc, replayVars, guiVars
  <2> HIDE DEF ReplayTypeOK
  <2> QED BY <1>0, <2>1, <2>2, <2>3
<1>3. CASE CallbackLock
  <2>1. ReplayTypeOK'
    BY <1>3 DEF CallbackLock, replayVars, guiVars, lifeVars, mainVars, historyVars
  <2>2. HandInv'
    BY <1>3 DEF CallbackLock, HandInv, AddingPc
  <2>3. ItemsAdded'
    BY <1>3 DEF CallbackLock, ItemsAdded, Added, AddingPc, replayVars, guiVars
  <2> HIDE DEF ReplayTypeOK
  <2> QED BY <1>0, <2>1, <2>2, <2>3
<1>4. CASE CallbackDecode
  <2>1. taken \in 1..Len(sent) /\ sent[taken].name \in Meshes
    BY <1>4 DEF CallbackDecode, HandInv, AddingPc, WellNamed, Named
  <2>2. inHand' \in Item /\ inHand'.id = inHand.id
    BY <1>4 DEF CallbackDecode, Item
  <2>3. ReplayTypeOK'
    BY <1>4, <2>1, <2>2 DEF CallbackDecode, replayVars, lifeVars, mainVars, historyVars
  <2>4. HandInv'
    BY <1>4, <2>1, <2>2 DEF CallbackDecode, HandInv, AddingPc
  <2>5. ItemsAdded'
    BY <1>4 DEF CallbackDecode, ItemsAdded, Added, AddingPc, replayVars
  <2> HIDE DEF ReplayTypeOK
  <2> QED BY <1>0, <2>3, <2>4, <2>5
<1>5. CASE Push
  <2> DEFINE longer == Append(items, inHand)
  <2>1. /\ longer \in Seq(Item)
        /\ \A k \in DOMAIN longer :
             longer[k] = inHand \/ \E j \in DOMAIN items : longer[k] = items[j]
    OBVIOUS
  <2>2. items' \in Sorted(longer)
    BY <1>5 DEF Push
  <2>3. /\ items' \in Seq(Item)
        /\ \A k \in DOMAIN items' :
             items'[k] = inHand \/ \E j \in DOMAIN items : items'[k] = items[j]
    <3>1. /\ items' \in Seq(Item)
          /\ \A k \in DOMAIN items' : \E j \in DOMAIN longer : items'[k] = longer[j]
      BY <2>1, <2>2, SortedItems
    <3> HIDE DEF longer
    <3> QED
      BY <2>1, <3>1
  <2>4. ReplayTypeOK'
    BY <1>5, <2>3 DEF Push, guiVars, lifeVars, mainVars, historyVars
  <2>5. HandInv'
    BY <1>5 DEF Push, HandInv, AddingPc
  <2>6. ItemsAdded'
    <3>1. inHand.id = taken /\ taken \in 1..Len(sent) /\ sent[taken].kind # "stop"
      BY <1>5 DEF Push, HandInv, AddingPc
    <3>2. \A n : Added(n) => Added(n)'
      BY <1>5 DEF Push, Added, AddingPc
    <3>3. Added(taken)'
      BY <1>5, <3>1 DEF Push, Added, AddingPc
    <3>4. sent' = sent /\ todo' = todo
      BY <1>5 DEF Push, guiVars
    <3>5. ASSUME NEW k \in DOMAIN items'
          PROVE  (Added(items[k].id) /\ sent[items[k].id].kind # "stop")'
      <4>1. CASE items'[k] = inHand
        BY <1>5, <3>1, <3>3, <3>4, <4>1 DEF Added, AddingPc, Push
      <4>2. CASE \E j \in DOMAIN items : items'[k] = items[j]
        BY <1>5, <3>4, <4>2 DEF ItemsAdded, Added, AddingPc, Push
      <4> QED
        BY <2>3, <4>1, <4>2
    <3>6. ASSUME NEW k \in DOMAIN todo
          PROVE  (Added(todo[k].id) /\ sent[todo[k].id].kind # "stop")'
      BY <1>5, <3>4 DEF ItemsAdded, Added, AddingPc, Push
    <3> QED
      BY <3>4, <3>5, <3>6 DEF ItemsAdded
  <2> HIDE DEF ReplayTypeOK
  <2> QED BY <1>0, <2>4, <2>5, <2>6
<1>6. CASE ServerEnds
  BY <1>0, <1>6 DEF ServerEnds, HandInv, ItemsAdded, Added, AddingPc, mutexes, replayVars,
                     guiVars,
              lifeVars, mainVars, historyVars
<1>7. CASE Update
  <2>1. currentTime' \in Nat
    BY <1>7 DEF Update
  <2> QED
    BY <1>0, <1>7, <2>1 DEF Update, HandInv, ItemsAdded, Added, AddingPc, serverVars, mutexes,
                      guiVars, lifeVars, historyVars
<1>8. CASE UserInput
  <2>1. viewerTime' \in Nat \cup {-1}
    BY <1>8 DEF UserInput
  <2> QED
    BY <1>0, <1>8, <2>1 DEF UserInput, HandInv, ItemsAdded, Added, AddingPc, serverVars, mutexes,
                      replayVars, lifeVars
<1>9. CASE AskMeshes
  <2>1. /\ todo' \in Seq(Item)
        /\ \A k \in DOMAIN todo' : \E j \in DOMAIN items : todo'[k] = items[j]
    BY <1>9, RangeItems DEF AskMeshes
  <2>2. ReplayTypeOK'
    BY <1>9, <2>1 DEF AskMeshes, serverVars, mutexes, replayVars, lifeVars,
                      historyVars
  <2>3. HandInv'
    BY <1>9 DEF AskMeshes, HandInv, AddingPc, serverVars
  <2>4. ItemsAdded'
    BY <1>9, <2>1 DEF AskMeshes, ItemsAdded, Added, AddingPc, serverVars, replayVars
  <2> HIDE DEF ReplayTypeOK
  <2> QED BY <1>0, <2>2, <2>3, <2>4
<1>10. CASE DecodeMesh
  <2>1. /\ Head(todo) \in Item /\ Tail(todo) \in Seq(Item)
        /\ Added(Head(todo).id)
        /\ \A k \in DOMAIN Tail(todo) : \E j \in DOMAIN todo : Tail(todo)[k] = todo[j]
    BY <1>10, TodoItems DEF DecodeMesh, ItemsAdded
  <2>2. Named(sent[Head(todo).id])
    BY <2>1 DEF Added, WellNamed
  <2>3. meshMap' \subseteq Meshes
    BY <1>10, <2>2 DEF DecodeMesh, Wanted, Named
  <2>4. ReplayTypeOK'
    BY <1>10, <2>1, <2>3 DEF DecodeMesh, serverVars, mutexes, replayVars, lifeVars,
                            mainVars, historyVars
  <2>5. HandInv'
    BY <1>10 DEF DecodeMesh, HandInv, AddingPc, serverVars
  <2>6. ItemsAdded'
    <3>1. /\ todo' = Tail(todo) /\ UNCHANGED <<sent, items>>
          /\ \A n : Added(n) => Added(n)'
      BY <1>10 DEF DecodeMesh, Added, AddingPc, serverVars, replayVars
    <3> QED
      BY <2>1, <3>1 DEF ItemsAdded
  <2> HIDE DEF ReplayTypeOK
  <2> QED BY <1>0, <2>4, <2>5, <2>6
<1>11. CASE AskObjects
  <2>1. /\ todo' \in Seq(Item)
        /\ \A k \in DOMAIN todo' : \E j \in DOMAIN items : todo'[k] = items[j]
    BY <1>11, RangeItems DEF AskObjects
  <2>2. ReplayTypeOK'
    BY <1>11, <2>1 DEF AskObjects, serverVars, mutexes, replayVars, lifeVars
  <2>3. HandInv'
    BY <1>11 DEF AskObjects, HandInv, AddingPc, serverVars
  <2>4. ItemsAdded'
    BY <1>11, <2>1 DEF AskObjects, ItemsAdded, Added, AddingPc, serverVars, replayVars
  <2> HIDE DEF ReplayTypeOK
  <2> QED BY <1>0, <2>2, <2>3, <2>4
<1>12. CASE DecodeObject
  <2>1. /\ Head(todo) \in Item /\ Tail(todo) \in Seq(Item)
        /\ Added(Head(todo).id)
        /\ \A k \in DOMAIN Tail(todo) : \E j \in DOMAIN todo : Tail(todo)[k] = todo[j]
    BY <1>12, TodoItems DEF DecodeObject, ItemsAdded
  <2>2. /\ sent[Head(todo).id] \in Packet
        /\ Head(todo).id \in Nat
    <3>1. Head(todo).id \in 1..taken /\ 1..taken \subseteq DOMAIN sent
      BY <2>1 DEF Added
    <3> QED
      BY <3>1
  <2>3. shown' \in [Objects -> [id : Nat, mesh : Meshes \cup {NoMesh}]]
    <3> DEFINE p == sent[Head(todo).id]
    <3>1. CASE Wanted("object")
      <4>1. PICK new \in [id : Nat, mesh : Meshes \cup {NoMesh}] :
              shown' = [shown EXCEPT ![p.name] = new]
        <5>1. p.name \in Objects
          BY <2>1, <3>1 DEF Wanted, WellNamed, Named, Added
        <5>2. shown[p.name].mesh \in Meshes \cup {NoMesh}
          BY <5>1
        <5> QED
          BY <1>12, <2>2, <3>1, <5>1, <5>2 DEF DecodeObject, Packet
      <4> QED
        BY <4>1
    <3>2. CASE ~Wanted("object")
      BY <1>12, <3>2 DEF DecodeObject
    <3> QED
      BY <3>1, <3>2
  <2>4. ReplayTypeOK'
    BY <1>12, <2>1, <2>3 DEF DecodeObject, serverVars, mutexes, replayVars, lifeVars,
                            mainVars, historyVars
  <2>5. HandInv'
    BY <1>12 DEF DecodeObject, HandInv, AddingPc, serverVars
  <2>6. ItemsAdded'
    <3>1. /\ todo' = Tail(todo) /\ UNCHANGED <<sent, items>>
          /\ \A n : Added(n) => Added(n)'
      BY <1>12 DEF DecodeObject, Added, AddingPc, serverVars, replayVars
    <3> QED
      BY <2>1, <3>1 DEF ItemsAdded
  <2> HIDE DEF ReplayTypeOK
  <2> QED BY <1>0, <2>4, <2>5, <2>6
<1>13. CASE MeshesDecoded \/ ObjectsDecoded \/ DrawLock \/ Draw \/ EndFrame
  <2>1. ReplayTypeOK'
    BY <1>13 DEF MeshesDecoded, ObjectsDecoded, DrawLock, Draw, EndFrame, serverVars, mutexes,
                 replayVars, guiVars, lifeVars, mainVars, historyVars
  <2> QED
    BY <1>0, <1>13, <2>1 DEF MeshesDecoded, ObjectsDecoded, DrawLock, Draw, EndFrame,
       HandInv, ItemsAdded, Added, AddingPc, serverVars, replayVars, guiVars
<1>14. CASE ClientSends \/ Finish
  <2>1. writing' \in Packet
    <3>1. CASE ClientSends
      BY <3>1 DEF ClientSends
    <3>2. CASE Finish
      <4>1. PICK p \in Packets : writing' = [p EXCEPT !.kind = "stop"]
        BY <3>2 DEF Finish
      <4>2. p \in Packet
        BY <4>1
      <4> QED
        BY <4>1, <4>2 DEF Packet, Kind
    <3> QED
      BY <1>14, <3>1, <3>2
  <2> QED
    BY <1>0, <1>14, <2>1 DEF ClientSends, Finish, HandInv, ItemsAdded, Added, AddingPc,
       serverVars, mutexes, replayVars, guiVars, lifeVars, historyVars
<1>15. CASE Write
  <2>1. /\ sent' \in Seq(Packet) /\ Len(sent') = Len(sent) + 1
        /\ \A n \in 1..Len(sent) : sent'[n] = sent[n]
    BY <1>15 DEF Write
  <2>2. ReplayTypeOK'
    BY <1>15, <2>1 DEF Write, serverVars, mutexes, replayVars, guiVars, lifeVars, historyVars
  <2>3. HandInv'
    BY <1>15, <2>1 DEF Write, HandInv, AddingPc, serverVars
  <2>4. ItemsAdded'
    <3>1. /\ UNCHANGED <<items, todo, taken>>
          /\ \A n : Added(n) => Added(n)' /\ n \in 1..Len(sent)
      BY <1>15 DEF Write, Added, AddingPc, serverVars, replayVars, guiVars
    <3> QED
      BY <2>1, <3>1 DEF ItemsAdded
  <2> HIDE DEF ReplayTypeOK
  <2> QED BY <1>0, <2>2, <2>3, <2>4
<1>16. CASE StopServer \/ Join \/ DestroyGui
  <2>1. ReplayTypeOK'
    BY <1>16 DEF StopServer, Join, DestroyGui, serverVars, mutexes, replayVars, guiVars,
                 lifeVars, historyVars
  <2> QED
    BY <1>0, <1>16, <2>1 DEF StopServer, Join, DestroyGui, HandInv, ItemsAdded, Added, AddingPc,
       serverVars, replayVars, guiVars
<1>17. CASE UNCHANGED vars
  BY <1>0, <1>17 DEF HandInv, ItemsAdded, Added, AddingPc, vars, serverVars, mutexes, replayVars,
     guiVars, lifeVars, mainVars, historyVars
<1> QED
  BY <1>1, <1>2, <1>3, <1>4, <1>5, <1>6, <1>7, <1>8, <1>9, <1>10, <1>11, <1>12, <1>13, <1>14,
     <1>15, <1>16, <1>17 DEF Next, ServerStep, MainStep, Done

(* Every reachable state is well typed: items and meshes are those of packets *)
(* that were sent, and the mutexes are held exactly where the code holds      *)
(* them.                                                                      *)
THEOREM ReplayTypeCorrect == Spec => []ReplayTypeOK
<1>1. TypeInv => ReplayTypeOK
  BY DEF TypeInv
<1> QED
  BY <1>1, TypeInit, TypeStep, PTL DEF Spec

-----------------------------------------------------------------------------
(* Taking down: the server's thread has ended before the gui is touched. *)
EndInv ==
  /\ mainPc \in {"gui", "done"} => serverPc = "ended"
  /\ ~guiAlive => mainPc = "done"

(* replayapp.cpp 137-141: whatever the server's thread is doing when the      *)
(* application ends, none of its callbacks meets a gui that is gone.          *)
THEOREM GuiOutlivesCallbacks == Spec => []NoCallbackAfterGui
<1>1. Init => EndInv
  BY DEF Init, EndInv
<1>2. EndInv /\ [Next]_vars => EndInv'
  <2> SUFFICES ASSUME EndInv, [Next]_vars PROVE EndInv'
    OBVIOUS
  <2> USE DEF EndInv
  <2>1. CASE ServerStep
    BY <2>1 DEF ServerStep, Take, AddLock, CallbackLock, CallbackDecode, Push, ServerEnds,
                mainVars, lifeVars
  <2>2. CASE Update \/ UserInput \/ AskMeshes \/ DecodeMesh \/ MeshesDecoded \/ AskObjects
    BY <2>2 DEF Update, UserInput, AskMeshes, DecodeMesh, MeshesDecoded, AskObjects,
                serverVars, lifeVars, mainVars
  <2>3. CASE DecodeObject \/ ObjectsDecoded \/ DrawLock \/ Draw \/ ClientSends \/ Write
    BY <2>3 DEF DecodeObject, ObjectsDecoded, DrawLock, Draw, ClientSends, Write,
                serverVars, lifeVars, mainVars
  <2>4. CASE EndFrame \/ Finish \/ StopServer
    BY <2>4 DEF EndFrame, Finish, StopServer, serverVars, lifeVars
  <2>5. CASE Join
    BY <2>5 DEF Join, serverVars, lifeVars
  <2>6. CASE DestroyGui
    BY <2>6 DEF DestroyGui, serverVars
  <2>7. CASE UNCHANGED vars
    BY <2>7 DEF vars, serverVars, lifeVars, mainVars
  <2> QED
    BY <2>1, <2>2, <2>3, <2>4, <2>5, <2>6, <2>7 DEF Next, MainStep, Done
<1>3. EndInv => NoCallbackAfterGui
  BY DEF EndInv, NoCallbackAfterGui
<1> QED
  BY <1>1, <1>2, <1>3, PTL DEF Spec

-----------------------------------------------------------------------------
(* The gui has the meshes of all packets that have been added. *)
MeshesThere == \A n \in 1..taken : Added(n) /\ sent[n].kind = "mesh" => sent[n].name \in meshMap

(* The callback decodes a mesh before its packet is pushed. *)
PushedIsThere ==
  serverPc = "push" /\ sent[taken].kind = "mesh" => sent[taken].name \in meshMap

(* Objects are set from items. *)
ShownAdded == \A o \in Objects : shown[o].id # 0 => Added(shown[o].id)

MeshInv == MeshesThere /\ PushedIsThere /\ ShownAdded /\ MeshBeforeObject

(* Every step keeps it: a packet counts as added once its mesh is decoded. *)
LEMMA MeshStep == TypeInv /\ MeshInv /\ [Next]_vars => MeshInv'
<1> SUFFICES ASSUME TypeInv, MeshInv, [Next]_vars PROVE MeshInv'
  OBVIOUS
<1> USE DEF TypeInv, ReplayTypeOK, MeshInv
<1>1. CASE Take
  <2>1. \A n \in Nat : Added(n)' => (n = taken' /\ sent[n].kind = "stop") \/ Added(n)
    BY <1>1 DEF Take, Added, AddingPc
  <2>2. MeshesThere'
    BY <1>1, <2>1 DEF Take, MeshesThere, Added, AddingPc, guiVars
  <2>3. PushedIsThere' /\ ShownAdded' /\ MeshBeforeObject'
    BY <1>1 DEF Take, PushedIsThere, ShownAdded, MeshBeforeObject, Added, AddingPc, guiVars
  <2> QED BY <2>2, <2>3
<1>2. CASE AddLock \/ CallbackLock \/ ServerEnds
  BY <1>2 DEF AddLock, CallbackLock, ServerEnds, MeshesThere, PushedIsThere, ShownAdded,
     MeshBeforeObject, Added, AddingPc, guiVars, HasCallback
<1>3. CASE CallbackDecode
  BY <1>3 DEF CallbackDecode, MeshesThere, PushedIsThere, ShownAdded, MeshBeforeObject, Added,
     AddingPc
<1>4. CASE Push
  BY <1>4 DEF Push, MeshesThere, PushedIsThere, ShownAdded, MeshBeforeObject, Added, AddingPc,
     guiVars
<1>5. CASE DecodeMesh
  BY <1>5 DEF DecodeMesh, MeshesThere, PushedIsThere, ShownAdded, MeshBeforeObject, Added,
     AddingPc, serverVars
<1>6. CASE DecodeObject
  <2> DEFINE k == Head(todo).id
             p == sent[k]
  <2>1. Added(k)
    BY <1>6, TodoItems DEF DecodeObject, ItemsAdded
  <2>2. MeshesThere' /\ PushedIsThere'
    BY <1>6 DEF DecodeObject, MeshesThere, PushedIsThere, Added, serverVars
  <2>3. \A n : Added(n) => Added(n)'
    BY <1>6 DEF DecodeObject, Added, serverVars
  <2>4. CASE ~Wanted("object")
    BY <1>6, <2>2, <2>3, <2>4 DEF DecodeObject, ShownAdded, MeshBeforeObject
  <2>5. CASE Wanted("object")
    <3> DEFINE new == [id |-> k, mesh |-> IF p.mesh \in meshMap THEN p.mesh
                                           ELSE shown[p.name].mesh]
    <3>0. shown' = [shown EXCEPT ![p.name] = new]
      BY <1>6, <2>5 DEF DecodeObject
    <3>1. /\ shown' \in [Objects -> [id : Nat, mesh : Meshes \cup {NoMesh}]]
          /\ \A o \in Objects : \/ shown'[o] = shown[o]
                                \/ /\ o = p.name /\ shown'[o].id = k
                                   /\ p.mesh \in meshMap => shown'[o].mesh = p.mesh
      BY <3>0, TypeStep
    <3>2. ASSUME NEW n \in 1..k-1, sent[n].kind = "mesh", sent[n].name = p.mesh
          PROVE  p.mesh \in meshMap
      <4>1. k \in 1..taken /\ taken \in Nat
        BY <2>1 DEF Added
      <4>2. Added(n)
        BY <4>1 DEF Added
      <4> QED
        BY <3>2, <4>2 DEF MeshesThere, Added
    <3>3. ShownAdded'
      BY <2>1, <2>3, <3>1 DEF ShownAdded
    <3>4. sent' = sent
      BY <1>6 DEF DecodeObject
    <3>5. MeshBeforeObject'
      BY <3>1, <3>2, <3>4 DEF MeshBeforeObject
    <3> QED
      BY <2>2, <3>3, <3>5
  <2> QED BY <2>4, <2>5
<1>7. CASE Write
  <2>1. \A n \in 1..Len(sent) : sent'[n] = sent[n]
    BY <1>7 DEF Write
  <2>2. \A n : Added(n)' <=> Added(n)
    BY <1>7 DEF Write, Added, serverVars
  <2>3. MeshesThere' /\ ShownAdded'
    BY <1>7, <2>1, <2>2 DEF Write, MeshesThere, ShownAdded, serverVars, guiVars
  <2>4. PushedIsThere'
    BY <1>7, <2>1 DEF Write, PushedIsThere, HandInv, AddingPc, serverVars, guiVars
  <2>5. MeshBeforeObject'
    <3>1. shown' = shown /\ meshMap' = meshMap
      BY <1>7 DEF Write, guiVars
    <3>2. \A o \in Objects : shown[o].id # 0 => shown[o].id \in 1..Len(sent)
      BY DEF ShownAdded, Added
    <3> SUFFICES ASSUME NEW o \in Objects, shown[o].id # 0,
                        NEW j \in 1..shown[o].id-1, sent'[j].kind = "mesh",
                        sent'[j].name = sent'[shown[o].id].mesh
                 PROVE  shown[o].mesh = sent'[shown[o].id].mesh
      BY <3>1 DEF MeshBeforeObject
    <3>3. sent'[j] = sent[j] /\ sent'[shown[o].id] = sent[shown[o].id]
      BY <2>1, <3>2
    <3> QED
      BY <3>3 DEF MeshBeforeObject
  <2> QED BY <2>3, <2>4, <2>5
<1>8. CASE UNCHANGED <<sent, serverVars, meshMap, shown>>
  BY <1>8 DEF MeshesThere, PushedIsThere, ShownAdded, MeshBeforeObject, Added, serverVars
<1> QED
  BY <1>1, <1>2, <1>3, <1>4, <1>5, <1>6, <1>7, <1>8
  DEF Next, ServerStep, MainStep, Done, Update, UserInput, AskMeshes, MeshesDecoded,
      AskObjects, ObjectsDecoded, DrawLock, Draw, ClientSends, EndFrame, Finish, StopServer,
      Join, DestroyGui, vars, guiVars

(* gui.cpp 298-314, 669-735, replay.cpp 22-30: an object is never drawn       *)
(* without a mesh that was sent before it, for any number of meshes, objects  *)
(* and packets, and whatever the sort does to items of one time.              *)
THEOREM MeshesComeFirst == Spec => []MeshBeforeObject
<1>1. Init => MeshInv
  <2> SUFFICES ASSUME Init PROVE MeshInv
    OBVIOUS
  <2> QED
    BY DEF Init, MeshInv, MeshesThere, PushedIsThere, ShownAdded, MeshBeforeObject
<1>2. MeshInv => MeshBeforeObject
  BY DEF MeshInv
<1> QED
  BY <1>1, <1>2, TypeInit, TypeStep, MeshStep, PTL DEF Spec

-----------------------------------------------------------------------------
(* What it takes to draw the newest *)

(* The packet that stops is one more than the bound allows. *)
StopInv ==
  IF mainPc \in {"stopServer", "join", "gui", "done"}
  THEN /\ Len(sent) > 0 /\ Len(sent) <= MaxPackets + 1
       /\ sent[Len(sent)].kind = "stop"
  ELSE /\ Len(sent) <= MaxPackets
       /\ mainPc = "write" /\ writing.kind # "stop" => Len(sent) < MaxPackets

(* Every item has its packet. *)
CountInv ==
  /\ Len(items) <= taken
  /\ serverPc \in AddingPc => Len(items) < taken

InHandPc == AddingPc \ {"lookup"}

(* Items are in the order of their packets and of their times; only meshes are hidden. *)

ChronicleInv ==
  /\ \A j, k \in DOMAIN items : j < k =>
       items[j].id < items[k].id /\ items[j].time <= items[k].time
  /\ \A k \in DOMAIN items : /\ items[k].time <= currentTime
                             /\ items[k].hidden => sent[items[k].id].kind = "mesh"
  /\ serverPc \in InHandPc =>
       /\ inHand.time <= currentTime
       /\ inHand.hidden => sent[taken].kind = "mesh"
       /\ \A k \in DOMAIN items : items[k].time <= inHand.time

(* How far time may have passed since the objects were asked for. *)
Since == IF mainPc \in {"ui", "meshes", "decodeMeshes", "objects"} THEN MaxDelta ELSE 0

(* What was added since is not older than that. *)
LateInv ==
  /\ ranged <= Len(items)
  /\ \A k \in ranged+1..Len(items) : currentTime <= items[k].time + Since
  /\ serverPc \in InHandPc => currentTime <= inHand.time + Since

(* The items that the frame has still to decode, the last of those it asked among. *)
Undecoded == IF mainPc = "decodeObjects" THEN Len(todo) ELSE 0

(* Before these, every object was set from its newest item. *)
SeenInv ==
  ~everPaused =>
    /\ viewerTime = -1
    /\ Undecoded <= ranged
    /\ mainPc = "decodeObjects" =>
         \A j \in DOMAIN todo : todo[j] = items[ranged - Undecoded + j]
    /\ \A o \in Objects, k \in 1..ranged-Undecoded :
         sent[items[k].id].kind = "object" /\ sent[items[k].id].name = o
           => shown[o].id >= items[k].id

NewestInv == StopInv /\ CountInv /\ ChronicleInv /\ LateInv /\ SeenInv

(* What the types say of lengths, numbers and items. *)
LEMMA TypeFacts ==
  ASSUME TypeInv
  PROVE  /\ sent \in Seq(Packet) /\ Len(sent) \in Nat /\ taken \in 0..Len(sent)
         /\ items \in Seq(Item) /\ Len(items) \in Nat /\ DOMAIN items = 1..Len(items)
         /\ \A k \in DOMAIN items : items[k].id \in Nat /\ items[k].time \in Nat
         /\ todo \in Seq(Item) /\ Len(todo) \in Nat /\ DOMAIN todo = 1..Len(todo)
         /\ inHand \in Item /\ inHand.id \in Nat /\ inHand.time \in Nat
         /\ currentTime \in Nat /\ ranged \in Nat
         /\ {Window, MaxDelta, MaxPackets, StableUpTo} \subseteq Nat
<1>1. /\ sent \in Seq(Packet) /\ taken \in 0..Len(sent) /\ items \in Seq(Item)
      /\ todo \in Seq(Item) /\ inHand \in Item /\ currentTime \in Nat /\ ranged \in Nat
  BY DEF TypeInv, ReplayTypeOK
<1>2. \A k \in 1..Len(items) : items[k] \in Item
  BY <1>1, ElementOfSeq
<1>3. {Window, MaxDelta, MaxPackets, StableUpTo} \subseteq Nat
  BY ReplayAssumption
<1> QED
  BY <1>1, <1>2, <1>3, LenProperties DEF Item

(* Every step keeps the count of the packets. *)
LEMMA StopStep ==
  ASSUME TypeInv, StopInv, [Next]_vars
  PROVE  StopInv'
<1> USE TypeFacts DEF StopInv
<1>1. CASE Write
  <2>1. sent' = Append(sent, writing) /\ Len(sent') = Len(sent) + 1
        /\ sent'[Len(sent) + 1] = writing
    BY <1>1, AppendProperties DEF Write, TypeInv, ReplayTypeOK
  <2> QED
    BY <1>1, <2>1 DEF Write
<1>2. CASE ClientSends
  <2>1. writing'.kind # "stop"
    BY <1>2, ReplayAssumption DEF ClientSends
  <2> QED
    BY <1>2, <2>1 DEF ClientSends
<1>3. CASE Finish
  <2>1. PICK p \in Packets : writing' = [p EXCEPT !.kind = "stop"]
    BY <1>3 DEF Finish
  <2>2. writing'.kind = "stop"
    BY <2>1, ReplayAssumption DEF Packet
  <2> QED
    BY <1>3, <2>2 DEF Finish
<1>4. CASE ServerStep
  BY <1>4 DEF ServerStep, Take, AddLock, CallbackLock, CallbackDecode, Push, ServerEnds, mainVars
<1>5. CASE Update \/ UserInput \/ AskMeshes \/ DecodeMesh \/ MeshesDecoded \/ AskObjects
  BY <1>5 DEF Update, UserInput, AskMeshes, DecodeMesh, MeshesDecoded, AskObjects, mainVars
<1>6. CASE DecodeObject \/ ObjectsDecoded \/ DrawLock \/ Draw \/ EndFrame
  BY <1>6 DEF DecodeObject, ObjectsDecoded, DrawLock, Draw, EndFrame, mainVars
<1>7. CASE StopServer \/ Join \/ DestroyGui
  BY <1>7 DEF StopServer, Join, DestroyGui
<1>8. CASE UNCHANGED vars
  BY <1>8 DEF vars, mainVars
<1> QED
  BY <1>1, <1>2, <1>3, <1>4, <1>5, <1>6, <1>7, <1>8 DEF Next, MainStep, Done

(* The steps that leave items, and what is in hand, alone. *)
LEMMA OtherSteps ==
  ASSUME Next, ~Take, ~AddLock, ~CallbackDecode, ~Push
  PROVE  /\ UNCHANGED <<items, inHand, taken>>
         /\ serverPc' = serverPc \/ (serverPc = "callback" /\ serverPc' = "decode")
                                 \/ (serverPc = "idle" /\ serverPc' = "ended")
BY DEF Next, Done, ServerStep, MainStep, CallbackLock, ServerEnds, Update, UserInput,
  AskMeshes, DecodeMesh, MeshesDecoded, AskObjects, DecodeObject, ObjectsDecoded, DrawLock,
  Draw, ClientSends, Write, EndFrame, Finish, StopServer, Join, DestroyGui, vars, serverVars,
  replayVars

(* An item is added only for a packet that was taken. *)
LEMMA CountStep ==
  ASSUME TypeInv, CountInv, [Next]_vars
  PROVE  CountInv'
<1> USE TypeFacts DEF CountInv, AddingPc
<1>1. CASE Take
  BY <1>1 DEF Take, replayVars
<1>2. CASE AddLock
  BY <1>2 DEF AddLock, replayVars
<1>3. CASE CallbackDecode
  BY <1>3 DEF CallbackDecode, replayVars
<1>4. CASE Push
  <2>1. Len(Append(items, inHand)) = Len(items) + 1 /\ Append(items, inHand) \in Seq(Item)
    BY AppendProperties
  <2>2. Len(items') = Len(items) + 1
    BY <1>4, <2>1, SortedLength DEF Push
  <2> QED
    BY <1>4, <2>2 DEF Push
<1>5. CASE UNCHANGED vars
  BY <1>5 DEF vars, serverVars, replayVars
<1>6. ASSUME Next, ~Take, ~AddLock, ~CallbackDecode, ~Push PROVE CountInv'
  BY <1>6, OtherSteps
<1> QED
  BY <1>1, <1>2, <1>3, <1>4, <1>5, <1>6

(* The new item goes to the end. *)
LEMMA PushAppends ==
  ASSUME TypeInv, StopInv, CountInv, ChronicleInv, MaxPackets <= StableUpTo, Push
  PROVE  /\ Len(items') = Len(items) + 1 /\ DOMAIN items' = 1..Len(items)+1
         /\ \A k \in 1..Len(items) : items'[k] = items[k]
         /\ items'[Len(items) + 1] = inHand
<1> USE TypeFacts
<1>1. PICK longer \in Seq(Item) : longer = Append(items, inHand)
  BY AppendProperties
<1>2. /\ Len(longer) = Len(items) + 1 /\ DOMAIN longer = 1..Len(items)+1
      /\ \A k \in 1..Len(items) : longer[k] = items[k]
      /\ longer[Len(items) + 1] = inHand
  BY <1>1, AppendProperties, LenProperties
<1>3. Len(items) + 1 <= StableUpTo
  <2>1. Len(items) < taken /\ sent[taken].kind # "stop"
    BY DEF Push, CountInv, AddingPc, TypeInv, HandInv
  <2>2. taken <= MaxPackets
    BY <2>1 DEF StopInv
  <2> QED
    BY <2>1, <2>2
<1>4. ASSUME NEW j \in DOMAIN longer, NEW k \in DOMAIN longer, j < k
      PROVE  longer[j].time <= longer[k].time
  <2>1. j \in DOMAIN items /\ longer[j] = items[j]
    BY <1>2, <1>4
  <2>2. CASE k \in DOMAIN items
    BY <1>2, <1>4, <2>1, <2>2 DEF ChronicleInv
  <2>3. CASE k = Len(items) + 1
    <3>1. serverPc \in InHandPc
      BY DEF Push, InHandPc, AddingPc
    <3> QED
      BY <1>2, <2>1, <2>3, <3>1 DEF ChronicleInv
  <2> QED
    BY <1>2, <2>2, <2>3
<1>5. items' = longer
  BY <1>1, <1>2, <1>3, <1>4, SortedStays DEF Push
<1> QED
  BY <1>2, <1>5

(* The clock and the server give items in order; time never goes back. *)
LEMMA ChronicleStep ==
  ASSUME TypeInv, StopInv, CountInv, ChronicleInv, MaxPackets <= StableUpTo, [Next]_vars
  PROVE  ChronicleInv'
<1> USE TypeFacts
(* What was sent stays, and packets are those that were added. *)
<1>1. \A n \in 1..Len(sent) : sent'[n] = sent[n]
  <2>1. sent' = sent \/ sent' = Append(sent, writing)
    BY DEF Next, Done, ServerStep, MainStep, Take, AddLock, CallbackLock, CallbackDecode, Push,
       ServerEnds, Update, UserInput, AskMeshes, DecodeMesh, MeshesDecoded, AskObjects,
       DecodeObject, ObjectsDecoded, DrawLock, Draw, ClientSends, Write, EndFrame, Finish,
       StopServer, Join, DestroyGui, vars
  <2>2. \A n \in 1..Len(sent) : Append(sent, writing)[n] = sent[n]
    <3>1. writing \in Packet
      BY DEF TypeInv, ReplayTypeOK
    <3> QED
      BY <3>1, AppendProperties
  <2> QED
    BY <2>1, <2>2
<1>2. \A k \in DOMAIN items : items[k].id \in 1..Len(sent)
  BY DEF TypeInv, ItemsAdded, Added
<1>3. currentTime' \in Nat /\ currentTime' >= currentTime
  BY DEF Next, Done, ServerStep, MainStep, Take, AddLock, CallbackLock, CallbackDecode, Push,
     ServerEnds, Update, UserInput, AskMeshes, DecodeMesh, MeshesDecoded, AskObjects,
     DecodeObject, ObjectsDecoded, DrawLock, Draw, ClientSends, Write, EndFrame, Finish,
     StopServer, Join, DestroyGui, vars, replayVars
<1>4. CASE Push
  <2>1. /\ Len(items') = Len(items) + 1 /\ DOMAIN items' = 1..Len(items)+1
        /\ \A k \in 1..Len(items) : items'[k] = items[k]
        /\ items'[Len(items) + 1] = inHand
    BY <1>4, PushAppends
  <2>2. /\ serverPc = "push" /\ serverPc' = "idle"
        /\ UNCHANGED <<sent, currentTime>>
    BY <1>4 DEF Push
  <2>3. /\ inHand.time <= currentTime /\ inHand.id = taken
        /\ inHand.hidden => sent[taken].kind = "mesh"
        /\ \A k \in DOMAIN items : items[k].time <= inHand.time /\ items[k].id < inHand.id
    <3>1. serverPc \in InHandPc
      BY <2>2 DEF InHandPc, AddingPc
    <3>2. inHand.id = taken /\ \A k \in DOMAIN items : items[k].id < taken
      BY <2>2 DEF TypeInv, HandInv, ItemsAdded, Added, AddingPc
    <3> QED
      BY <3>1, <3>2 DEF ChronicleInv
  <2>4. \A k \in 1..Len(items)+1 : k \in DOMAIN items \/ k = Len(items) + 1
    OBVIOUS
  <2>5. ASSUME NEW j \in 1..Len(items)+1, NEW k \in 1..Len(items)+1, j < k
        PROVE  items'[j].id < items'[k].id /\ items'[j].time <= items'[k].time
    <3>1. j \in DOMAIN items /\ items'[j] = items[j]
      BY <2>1, <2>5
    <3>2. CASE k \in DOMAIN items
      BY <2>1, <2>5, <3>1, <3>2 DEF ChronicleInv
    <3>3. CASE k = Len(items) + 1
      BY <2>1, <2>3, <3>1, <3>3
    <3> QED
      BY <2>4, <3>2, <3>3
  <2>6. ASSUME NEW k \in 1..Len(items)+1
        PROVE  /\ items'[k].time <= currentTime'
               /\ items'[k].hidden => sent'[items'[k].id].kind = "mesh"
    <3>1. CASE k \in DOMAIN items
      BY <2>1, <2>2, <3>1 DEF ChronicleInv
    <3>2. CASE k = Len(items) + 1
      BY <2>1, <2>2, <2>3, <3>2
    <3> QED
      BY <2>4, <3>1, <3>2
  <2> QED
    BY <2>1, <2>2, <2>5, <2>6 DEF ChronicleInv, InHandPc, AddingPc
<1>5. ASSUME UNCHANGED items,
             serverPc' \in InHandPc =>
               /\ inHand'.time <= currentTime'
               /\ inHand'.hidden => sent'[taken'].kind = "mesh"
               /\ \A k \in DOMAIN items : items[k].time <= inHand'.time
      PROVE  ChronicleInv'
  <2>1. \A k \in DOMAIN items : items[k].time <= currentTime'
    BY <1>3 DEF ChronicleInv
  <2>2. \A k \in DOMAIN items : items[k].hidden => sent'[items[k].id].kind = "mesh"
    BY <1>1, <1>2 DEF ChronicleInv
  <2> QED
    BY <1>5, <2>1, <2>2 DEF ChronicleInv, InHandPc, AddingPc
<1>6. CASE Take
  BY <1>5, <1>6 DEF Take, replayVars, InHandPc, AddingPc
<1>7. CASE AddLock
  <2>1. /\ UNCHANGED <<items, currentTime>>
        /\ inHand' = [id |-> taken, time |-> currentTime, hidden |-> FALSE]
    BY <1>7 DEF AddLock, replayVars
  <2>2. \A k \in DOMAIN items : items[k].time <= currentTime
    BY DEF ChronicleInv
  <2> QED
    BY <1>5, <2>1, <2>2
<1>8. CASE CallbackDecode
  <2>1. serverPc = "decode" /\ UNCHANGED <<items, taken, sent, currentTime>>
    BY <1>8 DEF CallbackDecode, replayVars
  <2>2. sent[taken].kind = "mesh" /\ serverPc \in InHandPc
    BY <2>1 DEF TypeInv, HandInv, InHandPc, AddingPc
  <2>3. inHand'.time = inHand.time
    BY <1>8 DEF CallbackDecode, Item
  <2> QED
    BY <1>5, <2>1, <2>2, <2>3 DEF ChronicleInv
<1>9. ASSUME UNCHANGED <<items, inHand, taken>>,
             serverPc' \in InHandPc => serverPc \in InHandPc
      PROVE  ChronicleInv'
  <2>1. serverPc \in InHandPc => taken \in 1..Len(sent)
    BY DEF TypeInv, HandInv, InHandPc, AddingPc
  <2> QED
    BY <1>1, <1>3, <1>5, <1>9, <2>1 DEF ChronicleInv
<1>10. ASSUME Next, ~Take, ~AddLock, ~CallbackDecode, ~Push PROVE ChronicleInv'
  <2>1. serverPc' \in InHandPc => serverPc \in InHandPc
    BY <1>10, OtherSteps DEF InHandPc, AddingPc
  <2> QED
    BY <1>9, <1>10, <2>1, OtherSteps
<1>11. CASE UNCHANGED vars
  BY <1>9, <1>11 DEF vars, serverVars, replayVars
<1> QED
  BY <1>4, <1>6, <1>7, <1>8, <1>10, <1>11

(* Asking for objects is what starts the count of time again. *)
LEMMA LateStep ==
  ASSUME TypeInv, StopInv, CountInv, ChronicleInv, LateInv, MaxPackets <= StableUpTo, [Next]_vars
  PROVE  LateInv'
<1>0. /\ Len(items) \in Nat /\ currentTime \in Nat /\ ranged \in Nat /\ MaxDelta \in Nat
      /\ inHand.time \in Nat
      /\ \A k \in ranged+1..Len(items) : k \in 1..Len(items) /\ items[k].time \in Nat
  BY TypeFacts
<1> USE <1>0
<1>1. Since \in Nat
  BY DEF Since
(* What is added keeps up as long as no time passes and the frame goes on. *)
<1>2. ASSUME UNCHANGED <<ranged, currentTime>>, Since' >= Since, Since' \in Nat,
             UNCHANGED items \/ Push
      PROVE  /\ ranged' <= Len(items')
             /\ \A k \in ranged'+1..Len(items') : currentTime' <= items'[k].time + Since'
  <2>1. PICK s \in Nat, r \in Nat : s = Since /\ r = Since' /\ s <= r
    BY <1>1, <1>2
  <2>2. /\ ranged <= Len(items)
        /\ \A k \in ranged+1..Len(items) : currentTime <= items[k].time + s
        /\ serverPc \in InHandPc => currentTime <= inHand.time + s
    BY <2>1 DEF LateInv
  <2>3. \A k \in ranged+1..Len(items) : currentTime <= items[k].time + r
    BY <2>1, <2>2
  <2>4. CASE UNCHANGED items
    BY <1>2, <2>1, <2>2, <2>3, <2>4
  <2>5. CASE Push
    <3>1. /\ Len(items') = Len(items) + 1
          /\ \A k \in 1..Len(items) : items'[k] = items[k]
          /\ items'[Len(items) + 1] = inHand
      BY <2>5, PushAppends
    <3>2. currentTime <= inHand.time + r
      BY <2>1, <2>2, <2>5 DEF Push, InHandPc, AddingPc
    <3>3. ASSUME NEW k \in ranged+1..Len(items)+1 PROVE currentTime <= items'[k].time + r
      <4>1. CASE k = Len(items) + 1
        BY <3>1, <3>2, <4>1
      <4>2. CASE k # Len(items) + 1
        <5>1. k \in 1..Len(items) /\ k \in ranged+1..Len(items)
          BY <4>2
        <5> QED
          BY <2>3, <3>1, <5>1
      <4> QED
        BY <4>1, <4>2
    <3> QED
      BY <1>2, <2>1, <2>2, <3>1, <3>3
  <2> QED
    BY <1>2, <2>4, <2>5
<1>3. CASE ServerStep
  <2>1. UNCHANGED <<ranged, currentTime, mainPc>> /\ Since' = Since
    BY <1>3 DEF ServerStep, Take, AddLock, CallbackLock, CallbackDecode, Push, ServerEnds,
                historyVars, mainVars, replayVars, Since
  <2>2. UNCHANGED items \/ Push
    BY <1>3 DEF ServerStep, Take, AddLock, CallbackLock, CallbackDecode, ServerEnds, replayVars
  <2>3. serverPc' \in InHandPc => currentTime' <= inHand'.time + Since'
    <3>1. CASE AddLock
      BY <1>1, <2>1, <3>1 DEF AddLock
    <3>2. CASE CallbackDecode
      <4>1. inHand'.time = inHand.time /\ serverPc \in InHandPc
        BY <3>2 DEF CallbackDecode, Item, InHandPc, AddingPc
      <4> QED
        BY <2>1, <4>1 DEF LateInv
    <3>3. CASE CallbackLock
      BY <2>1, <3>3 DEF CallbackLock, LateInv, InHandPc, AddingPc
    <3>4. CASE Take \/ Push \/ ServerEnds
      BY <3>4 DEF Take, Push, ServerEnds, InHandPc, AddingPc
    <3> QED
      BY <1>3, <3>1, <3>2, <3>3, <3>4 DEF ServerStep
  <2> QED
    BY <1>1, <1>2, <2>1, <2>2, <2>3 DEF LateInv
<1>4. CASE AskObjects
  <2>1. /\ ranged' = Len(items) /\ UNCHANGED items /\ lookupMutex = "none"
        /\ UNCHANGED serverPc
    BY <1>4 DEF AskObjects, replayVars, serverVars
  <2>2. serverPc' \notin InHandPc
    BY <2>1 DEF TypeInv, ReplayTypeOK, InHandPc, AddingPc
  <2> QED
    BY <2>1, <2>2 DEF LateInv
<1>5. CASE Update
  <2>1. /\ mainPc = "frame" /\ mainPc' = "ui" /\ UNCHANGED <<items, ranged, serverPc, inHand>>
        /\ currentTime' <= currentTime + MaxDelta
        /\ currentTime' \in Nat
    BY <1>5 DEF Update, serverVars, historyVars
  <2>2. Since = 0 /\ Since' = MaxDelta
    BY <2>1 DEF Since
  <2>3. /\ ranged <= Len(items)
        /\ \A k \in ranged+1..Len(items) : currentTime <= items[k].time
        /\ serverPc \in InHandPc => currentTime <= inHand.time
    BY <2>2 DEF LateInv
  <2>4. \A k \in ranged+1..Len(items) : currentTime' <= items[k].time + MaxDelta
    BY <2>1, <2>3
  <2>5. serverPc \in InHandPc => currentTime' <= inHand.time + MaxDelta
    BY <2>1, <2>3
  <2> QED
    BY <2>1, <2>2, <2>3, <2>4, <2>5 DEF LateInv
<1>6. ASSUME UNCHANGED <<ranged, currentTime, items, serverPc, inHand>>,
             Since' >= Since, Since' \in Nat
      PROVE  LateInv'
  BY <1>1, <1>2, <1>6 DEF LateInv
<1>7. CASE UserInput \/ AskMeshes \/ DecodeMesh \/ MeshesDecoded \/ DecodeObject
           \/ ObjectsDecoded
  <2>1. UNCHANGED <<ranged, currentTime, items, serverPc, inHand>>
    BY <1>7 DEF UserInput, AskMeshes, DecodeMesh, MeshesDecoded, DecodeObject, ObjectsDecoded,
                serverVars, replayVars, historyVars
  <2>2. Since' = Since
    BY <1>7 DEF UserInput, AskMeshes, DecodeMesh, MeshesDecoded, DecodeObject, ObjectsDecoded,
                mainVars, Since
  <2> QED
    BY <1>1, <1>6, <2>1, <2>2
<1>8. CASE DrawLock \/ Draw \/ ClientSends \/ Write \/ EndFrame \/ Finish \/ StopServer
           \/ Join \/ DestroyGui
  <2>1. UNCHANGED <<ranged, currentTime, items, serverPc, inHand>>
    BY <1>8 DEF DrawLock, Draw, ClientSends, Write, EndFrame, Finish, StopServer, Join,
                DestroyGui, serverVars, replayVars, historyVars
  <2>2. Since' = Since
    BY <1>8 DEF DrawLock, Draw, ClientSends, Write, EndFrame, Finish, StopServer, Join,
                DestroyGui, Since
  <2> QED
    BY <1>1, <1>6, <2>1, <2>2
<1>9. CASE UNCHANGED vars
  BY <1>1, <1>6, <1>9 DEF vars, serverVars, replayVars, historyVars, mainVars, Since
<1> QED
  BY <1>3, <1>4, <1>5, <1>7, <1>8, <1>9 DEF Next, MainStep, Done

(* A bound that reaches the last index is the last index. *)
LEMMA AtLeastAll ==
  ASSUME NEW n \in Nat, NEW hi \in 0..n, \A k \in 1..n : k <= hi
  PROVE  hi = n
<1>1. n = 0 \/ n \in 1..n
  OBVIOUS
<1> QED
  BY <1>1

(* The frame asks for every item that is not known to be decoded. *)
LEMMA SeenStep ==
  ASSUME TypeInv, StopInv, CountInv, ChronicleInv, LateInv, SeenInv,
         MaxPackets <= StableUpTo, MaxDelta <= Window, [Next]_vars
  PROVE  SeenInv'
<1>0. /\ Len(items) \in Nat /\ currentTime \in Nat /\ ranged \in Nat /\ ranged <= Len(items)
      /\ MaxDelta \in Nat /\ Window \in Nat
      /\ Len(todo) \in Nat /\ DOMAIN todo = 1..Len(todo) /\ DOMAIN items = 1..Len(items)
      /\ \A k \in 1..Len(items) : /\ items[k].time \in Nat /\ items[k].id \in Nat
                                  /\ items[k].id \in 1..Len(sent)
  <2>1. \A k \in DOMAIN items : items[k].id \in 1..Len(sent)
    BY TypeFacts DEF TypeInv, ItemsAdded, Added
  <2> QED
    BY <2>1, TypeFacts DEF LateInv
<1> USE <1>0
<1>1. Undecoded \in Nat
  BY DEF Undecoded
<1>2. SUFFICES ASSUME ~everPaused', ~everPaused PROVE SeenInv'
  <2>1. ~everPaused' => ~everPaused
    BY DEF Next, Done, ServerStep, MainStep, Take, AddLock, CallbackLock, CallbackDecode, Push,
       ServerEnds, Update, UserInput, AskMeshes, DecodeMesh, MeshesDecoded, AskObjects,
       DecodeObject, ObjectsDecoded, DrawLock, Draw, ClientSends, Write, EndFrame, Finish,
       StopServer, Join, DestroyGui, vars, historyVars
  <2> QED
    BY <2>1 DEF SeenInv
<1>3. /\ viewerTime = -1 /\ Undecoded <= ranged
      /\ mainPc = "decodeObjects" =>
           \A j \in DOMAIN todo : todo[j] = items[ranged - Undecoded + j]
      /\ \A o \in Objects, k \in 1..ranged-Undecoded :
           sent[items[k].id].kind = "object" /\ sent[items[k].id].name = o
             => shown[o].id >= items[k].id
  BY <1>2 DEF SeenInv
(* What was asked for stays what it is. *)
<1>4. ASSUME UNCHANGED <<viewerTime, ranged, shown, Undecoded>>,
             mainPc' = "decodeObjects" => mainPc = "decodeObjects" /\ UNCHANGED todo,
             \A k \in 1..ranged : items'[k] = items[k] /\ sent'[items[k].id] = sent[items[k].id]
      PROVE  SeenInv'
  <2>1. mainPc = "decodeObjects" =>
          \A j \in DOMAIN todo : ranged - Undecoded + j \in 1..ranged
    BY <1>3 DEF Undecoded
  <2>2. mainPc' = "decodeObjects" =>
          \A j \in DOMAIN todo' : todo'[j] = items'[ranged' - Undecoded' + j]
    BY <1>3, <1>4, <2>1
  <2>3. \A k \in 1..ranged-Undecoded : k \in 1..ranged
    BY <1>1
  <2>4. \A o \in Objects, k \in 1..ranged'-Undecoded' :
          sent'[items'[k].id].kind = "object" /\ sent'[items'[k].id].name = o
            => shown'[o].id >= items'[k].id
    BY <1>3, <1>4, <2>3
  <2> QED
    BY <1>3, <1>4, <2>2, <2>4 DEF SeenInv
<1>5. CASE Push
  <2>1. \A k \in 1..Len(items) : items'[k] = items[k]
    BY <1>5, PushAppends
  <2>2. UNCHANGED <<viewerTime, ranged, shown, sent, mainPc, todo>>
    BY <1>5 DEF Push, guiVars, historyVars, mainVars
  <2> QED
    BY <1>4, <2>1, <2>2 DEF Undecoded
<1>6. CASE Write
  <2>1. \A n \in 1..Len(sent) : sent'[n] = sent[n]
    <3>1. writing \in Packet /\ sent \in Seq(Packet)
      BY DEF TypeInv, ReplayTypeOK
    <3> QED
      BY <1>6, <3>1, AppendProperties DEF Write
  <2>2. /\ UNCHANGED <<viewerTime, ranged, shown, todo, items>>
        /\ mainPc # "decodeObjects" /\ mainPc' # "decodeObjects"
    BY <1>6 DEF Write, guiVars, historyVars, replayVars
  <2> QED
    BY <1>4, <2>1, <2>2 DEF Undecoded
<1>7. CASE UserInput
  <2>1. /\ UNCHANGED <<ranged, shown, todo, items, sent>> /\ viewerTime' = -1
        /\ mainPc # "decodeObjects" /\ mainPc' # "decodeObjects"
    BY <1>2, <1>3, <1>7 DEF UserInput, replayVars
  <2> QED
    BY <1>3, <1>4, <2>1 DEF Undecoded
<1>8. CASE AskObjects
  <2>1. /\ mainPc = "objects" /\ mainPc' = "decodeObjects" /\ ranged' = Len(items)
        /\ UNCHANGED <<items, sent, shown, viewerTime>>
    BY <1>8 DEF AskObjects, replayVars
  <2>2. PICK lo \in 1..Len(items)+1, hi \in 0..Len(items) :
          Within(lo, hi) /\ todo' = SubSeq(items, lo, hi)
    BY <1>8 DEF AskObjects, GetRange
  <2>3. ViewTime = currentTime
    BY <1>3 DEF ViewTime
  <2>4. hi = Len(items)
    <3>1. \A k \in 1..Len(items) : items[k].time <= ViewTime
      BY <2>3 DEF ChronicleInv
    <3>2. \A k \in 1..Len(items) : k <= hi
      BY <2>2, <3>1 DEF Within
    <3> QED
      BY <3>2, AtLeastAll
  <2>5. /\ Len(todo') = Len(items) - lo + 1 /\ DOMAIN todo' = 1..Len(todo')
        /\ \A j \in DOMAIN todo' : todo'[j] = items[lo + j - 1]
    <3>1. items \in Seq(Item)
      BY TypeFacts
    <3>2. /\ todo' \in Seq(Item)
          /\ Len(todo') = IF lo <= hi THEN hi - lo + 1 ELSE 0
          /\ \A j \in 1..hi-lo+1 : todo'[j] = items[lo + j - 1]
      BY <2>2, <3>1, SubSeqProperties
    <3>3. Len(todo') = Len(items) - lo + 1
      BY <2>4, <3>2
    <3>4. DOMAIN todo' = 1..Len(todo')
      BY <3>2, LenProperties
    <3> QED
      BY <2>4, <3>2, <3>3, <3>4
  <2>6. Undecoded' = Len(items) - lo + 1 /\ ranged' - Undecoded' = lo - 1
    BY <2>1, <2>5 DEF Undecoded
  <2>7. ASSUME NEW k \in 1..lo-1 PROVE k \in 1..ranged-Undecoded
    <3>1. k \in 1..Len(items) /\ items[k].time < currentTime - Window
      BY <2>2, <2>3 DEF Within
    <3>2. Since = MaxDelta
      BY <2>1 DEF Since
    <3>3. ~(k \in ranged+1..Len(items))
      BY <3>1, <3>2 DEF LateInv
    <3>4. Undecoded = 0
      BY <2>1 DEF Undecoded
    <3> QED
      BY <3>1, <3>3, <3>4
  <2>8. \A j \in DOMAIN todo' : todo'[j] = items'[ranged' - Undecoded' + j]
    <3>1. \A j \in DOMAIN todo' : lo + j - 1 = lo - 1 + j
      BY <2>5
    <3> QED
      BY <2>1, <2>5, <2>6, <3>1
  <2>9. \A o \in Objects, k \in 1..ranged'-Undecoded' :
          sent'[items'[k].id].kind = "object" /\ sent'[items'[k].id].name = o
            => shown'[o].id >= items'[k].id
    BY <1>3, <2>1, <2>6, <2>7
  <2>10. Undecoded' <= ranged'
    BY <2>1, <2>6
  <2> QED
    BY <1>3, <2>1, <2>8, <2>9, <2>10 DEF SeenInv
<1>9. CASE DecodeObject
  <2>1. /\ mainPc = "decodeObjects" /\ mainPc' = "decodeObjects"
        /\ UNCHANGED <<items, sent, viewerTime, ranged>>
        /\ todo # <<>> /\ todo' = Tail(todo)
    BY <1>9 DEF DecodeObject, replayVars, mainVars, historyVars
  <2>2. PICK n \in Nat : n = Len(todo) /\ n > 0 /\ Undecoded = n /\ n <= ranged
    <3>1. Len(todo) > 0
      BY <2>1, TypeFacts, EmptySeq
    <3>2. Undecoded = Len(todo)
      BY <2>1 DEF Undecoded
    <3> QED
      BY <1>3, <3>1, <3>2
  <2>3. PICK b \in Nat : b = ranged - n /\ b + 1 \in 1..Len(items)
    <3>1. ranged - n \in Nat /\ (ranged - n) + 1 \in 1..Len(items)
      BY <2>2
    <3> QED
      BY <3>1
  <2>4. /\ Head(todo) = items[b + 1]
        /\ Len(todo') = n - 1 /\ DOMAIN todo' = 1..n-1
        /\ \A j \in 1..n-1 : todo'[j] = items[b + 1 + j]
    <3>1. todo \in Seq(Item) /\ Head(todo) = todo[1]
      BY <2>1, TypeFacts, TodoItems
    <3>2. \A j \in 1..n : todo[j] = items[b + j]
      BY <1>3, <2>1, <2>2, <2>3
    <3>3. /\ todo' \in Seq(Item) /\ Len(todo') = n - 1
          /\ \A j \in 1..n-1 : todo'[j] = todo[j + 1]
      BY <2>1, <2>2, <3>1, HeadTailProperties
    <3>4. DOMAIN todo' = 1..n-1
      BY <3>3, LenProperties
    <3>5. \A j \in 1..n-1 : j + 1 \in 1..n /\ b + (j + 1) = b + 1 + j
      BY <2>2, <2>3
    <3> QED
      BY <2>2, <3>1, <3>2, <3>3, <3>4, <3>5
  <2>5. Undecoded' = n - 1 /\ ranged' - Undecoded' = b + 1
    BY <2>1, <2>2, <2>3, <2>4 DEF Undecoded
  <2>6. PICK h : h = Head(todo).id
    OBVIOUS
  <2>7. /\ h = items[b + 1].id /\ h \in Nat
        /\ sent[h].kind = "object" => sent[h].name \in Objects
    <3>1. h = items[b + 1].id /\ h \in Nat /\ h \in 1..Len(sent)
      BY <2>3, <2>4, <2>6
    <3> QED
      BY <3>1 DEF TypeInv, WellNamed, Named
  <2>8. ASSUME NEW o \in Objects
        PROVE  \/ /\ shown'[o] = shown[o]
                  /\ ~(sent[h].kind = "object" /\ sent[h].name = o)
               \/ shown'[o].id = h
    <3>1. CASE Wanted("object")
      <4>1. sent[h].kind = "object" /\ sent[h].name \in Objects
        BY <2>6, <2>7, <3>1 DEF Wanted
      <4>2. PICK mesh : shown' = [shown EXCEPT ![sent[h].name] = [id |-> h, mesh |-> mesh]]
        BY <1>9, <2>6, <3>1 DEF DecodeObject
      <4>3. shown \in [Objects -> [id : Nat, mesh : Meshes \cup {NoMesh}]]
        BY DEF TypeInv, ReplayTypeOK
      <4> QED
        BY <4>1, <4>2, <4>3
    <3>2. CASE ~Wanted("object")
      <4>1. ~Head(todo).hidden \/ sent[h].kind = "mesh"
        <5>1. items[b + 1].hidden => sent[items[b + 1].id].kind = "mesh"
          BY <2>3 DEF ChronicleInv
        <5>2. Head(todo) = items[b + 1] /\ h = items[b + 1].id
          BY <2>4, <2>7
        <5> QED
          BY <5>1, <5>2, Zenon
      <4>2. sent[h].kind # "object"
        BY <2>6, <3>2, <4>1 DEF Wanted
      <4>3. shown' = shown
        BY <1>9, <3>2 DEF DecodeObject
      <4> QED
        BY <4>2, <4>3
    <3> QED
      BY <3>1, <3>2
  <2>9. ASSUME NEW o \in Objects, NEW k \in 1..b+1,
               sent[items[k].id].kind = "object", sent[items[k].id].name = o
        PROVE  shown'[o].id >= items[k].id
    <3>1. CASE k = b + 1
      BY <2>7, <2>8, <2>9, <3>1
    <3>2. CASE k \in 1..b
      <4>1. shown[o].id >= items[k].id
        BY <1>3, <2>2, <2>3, <2>9, <3>2
      <4>2. items[k].id < h
        <5>1. k \in DOMAIN items /\ b + 1 \in DOMAIN items /\ k < b + 1
          BY <2>3, <3>2
        <5> QED
          BY <2>7, <5>1 DEF ChronicleInv
      <4>3. k \in 1..Len(items)
        BY <2>3
      <4> QED
        BY <2>7, <2>8, <4>1, <4>2, <4>3
    <3> QED
      BY <3>1, <3>2
  <2>10. \A j \in DOMAIN todo' : todo'[j] = items'[ranged' - Undecoded' + j]
    BY <2>1, <2>4, <2>5
  <2>11. Undecoded' <= ranged'
    BY <2>1, <2>2, <2>5
  <2>12. \A o \in Objects, k \in 1..ranged'-Undecoded' :
           sent'[items'[k].id].kind = "object" /\ sent'[items'[k].id].name = o
             => shown'[o].id >= items'[k].id
    BY <2>1, <2>5, <2>9
  <2> QED
    BY <1>3, <2>1, <2>10, <2>11, <2>12 DEF SeenInv
<1>10. CASE ObjectsDecoded
  <2>1. /\ mainPc' = "lock" /\ todo = <<>>
        /\ UNCHANGED <<viewerTime, ranged, shown, items, sent>>
    BY <1>10 DEF ObjectsDecoded, guiVars, replayVars, historyVars
  <2> QED
    BY <1>4, <2>1 DEF Undecoded
<1>11. CASE ServerStep
  <2>1. CASE Take \/ AddLock \/ CallbackLock \/ CallbackDecode \/ ServerEnds
    <3>1. UNCHANGED <<viewerTime, ranged, shown, todo, items, sent, mainPc>>
      BY <2>1 DEF Take, AddLock, CallbackLock, CallbackDecode, ServerEnds, guiVars, replayVars,
                  mainVars, historyVars
    <3> QED
      BY <1>4, <3>1 DEF Undecoded
  <2> QED
    BY <1>5, <1>11, <2>1 DEF ServerStep
<1>12. CASE Update \/ AskMeshes \/ DecodeMesh \/ MeshesDecoded
  <2>1. /\ UNCHANGED <<viewerTime, ranged, shown, items, sent>>
        /\ mainPc # "decodeObjects" /\ mainPc' # "decodeObjects"
    BY <1>12 DEF Update, AskMeshes, DecodeMesh, MeshesDecoded, guiVars, replayVars, mainVars,
                 historyVars
  <2> QED
    BY <1>4, <2>1 DEF Undecoded
<1>13. CASE DrawLock \/ Draw \/ ClientSends \/ EndFrame \/ Finish \/ StopServer \/ Join
            \/ DestroyGui
  <2>1. /\ UNCHANGED <<viewerTime, ranged, shown, items, sent>>
        /\ mainPc # "decodeObjects" /\ mainPc' # "decodeObjects"
    BY <1>13 DEF DrawLock, Draw, ClientSends, EndFrame, Finish, StopServer, Join, DestroyGui,
                 guiVars, replayVars, historyVars
  <2> QED
    BY <1>4, <2>1 DEF Undecoded
<1>14. CASE UNCHANGED vars
  <2>1. UNCHANGED <<viewerTime, ranged, shown, todo, items, sent, mainPc>>
    BY <1>14 DEF vars, guiVars, replayVars, mainVars, historyVars
  <2> QED
    BY <1>4, <2>1 DEF Undecoded
<1> QED
  BY <1>6, <1>7, <1>8, <1>9, <1>10, <1>11, <1>12, <1>13, <1>14 DEF Next, MainStep, Done

(* There is nothing to decode at first. *)
LEMMA NewestInit == Init => NewestInv
<1> SUFFICES ASSUME Init PROVE NewestInv
  OBVIOUS
<1>1. /\ Len(sent) = 0 /\ Len(items) = 0 /\ DOMAIN items = {} /\ taken = 0
      /\ serverPc = "idle" /\ mainPc = "frame" /\ ranged = 0 /\ MaxPackets \in Nat
      /\ viewerTime = -1
  BY ReplayAssumption DEF Init
<1> QED
  BY <1>1 DEF NewestInv, StopInv, CountInv, ChronicleInv, LateInv, SeenInv, Since, Undecoded,
              AddingPc, InHandPc

(* gui.cpp 298-314, replay.cpp 20-67: no item falls out of the window unseen, as *)
(* long as no frame is longer than the window and the sort keeps items of one    *)
(* time in order for as many as there are.                                       *)
THEOREM NewestIsDrawn ==
  ASSUME MaxDelta <= Window, MaxPackets <= StableUpTo
  PROVE  Spec => []DrawsNewest
<1>1. Init => TypeInv /\ NewestInv
  BY TypeInit, NewestInit
<1>2. (TypeInv /\ NewestInv) /\ [Next]_vars => (TypeInv /\ NewestInv)'
  BY TypeStep, StopStep, CountStep, ChronicleStep, LateStep, SeenStep DEF NewestInv
<1>3. TypeInv /\ NewestInv => DrawsNewest
  BY TypeFacts DEF NewestInv, SeenInv, DrawsNewest, Undecoded
<1> QED
  BY <1>1, <1>2, <1>3, PTL DEF Spec
=============================================================================
