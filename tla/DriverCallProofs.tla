--------------------------- MODULE DriverCallProofs ----------------------------
(***************************************************************************)
(* Proofs about DriverCall, for any number of arguments and of             *)
(* placeholders: what the driver gets is what the caller gave, it is done  *)
(* once, and a call that fails leaves nothing behind.                      *)
(***************************************************************************)
EXTENDS DriverCall, SequenceTheorems, TLAPS

------------------------------------------------------------------------------
(* The work of the call, without its arguments.                           *)

Converting == {"take", "check", "run"}
Working == Converting \cup {"prepare", "begin"}
Ended == {"end", "done"}

ControlTyped ==
  /\ op \in Ops /\ pc \in Working \cup Ended \cup {"conn"}
  /\ path \in {"fast", "stmt"}
  /\ conn \in {"none", "held", "released", "kept"} /\ made \in {"none", "open", "closed"}
  /\ ran \in Nat /\ err \in {"nil", "bad", "other"}

(* The driver has done nothing before the call runs, and afterwards       *)
(* ErrBadConn, which alone leads to another attempt, says the same.       *)
RanInv ==
  /\ pc \notin Ended => ran = 0
  /\ pc \in Ended => /\ ran \in {0, 1}
                     /\ err = "nil" => ran = 1
                     /\ err = "bad" => ran = 0

(* Which statement or transaction can be open at which point.             *)
OpenInv ==
  /\ pc \in Working => conn = "held" /\ err = "nil"
  /\ pc \in {"prepare", "begin"} => made # "open" /\ path = "fast"
  /\ pc \in Converting \cup {"prepare"} => op # "begin"
  /\ pc = "begin" => op = "begin"
  /\ pc \in Converting /\ made = "open" => path = "stmt"
  /\ pc = "end" => /\ conn \in {"held", "none"}
                   /\ conn = "none" => made # "open" /\ err # "nil"
                   /\ made = "open" => path = "stmt" \/ (op = "begin" /\ err = "nil")

CallInv == ControlTyped /\ RanInv /\ OpenInv /\ NothingLeft

(* The invariant of the work holds before the call.                       *)
LEMMA InitCallInv == Init => CallInv
<1> SUFFICES ASSUME Init PROVE CallInv
  OBVIOUS
<1> USE DEF Init, Working, Converting, Ended
<1>1. ControlTyped
  BY DEF ControlTyped
<1>2. RanInv /\ OpenInv /\ NothingLeft
  BY DEF RanInv, OpenInv, NothingLeft
<1> QED
  BY <1>1, <1>2 DEF CallInv

(* Every step keeps the invariant of the work.                            *)
LEMMA NextCallInv == CallInv /\ [Next]_callVars => CallInv'
<1> SUFFICES ASSUME CallInv, [Next]_callVars PROVE CallInv'
  OBVIOUS
<1> USE DEF CallInv, ControlTyped, RanInv, OpenInv, NothingLeft, Working, Converting, Ended,
            Ops, Goto, Fail
<1>1. CASE Cancel
  BY <1>1 DEF Cancel
<1>2. CASE GetConn
  <2>1. made' = "none" /\ UNCHANGED <<op, ran>>
    BY <1>2 DEF GetConn
  <2>2. CASE conn' = "held" /\ err' = "nil" /\ op = "begin" /\ pc' = "begin" /\ path' = "fast"
    BY <1>2, <2>1, <2>2 DEF GetConn
  <2>3. CASE conn' = "held" /\ err' = "nil" /\ op # "begin" /\ Convert("fast")
    BY <1>2, <2>1, <2>3 DEF GetConn, Convert
  <2>4. CASE conn' = "held" /\ err' = "nil" /\ op # "begin" /\ pc' = "prepare" /\ path' = "fast"
    BY <1>2, <2>1, <2>4 DEF GetConn
  <2>5. CASE conn' = "none" /\ err' \in {"bad", "other"} /\ pc' = "end" /\ path' = "fast"
    BY <1>2, <2>1, <2>5 DEF GetConn
  <2> QED
    BY <1>2, <2>2, <2>3, <2>4, <2>5 DEF GetConn
<1>3. CASE Take
  BY <1>3 DEF Take
<1>4. CASE Check
  <2>1. pc = "check" /\ UNCHANGED <<op, path, conn, made, ran>>
    BY <1>4 DEF Check
  <2>2. CASE \E kind \in Is : Accept(kind) \/ SkipTo(kind)
    BY <2>1, <2>2 DEF Accept, SkipTo
  <2>3. CASE Drop \/ Refuse
    BY <2>1, <2>3 DEF Drop, Refuse
  <2> QED
    BY <1>4, <2>2, <2>3 DEF Check, Is
<1>5. CASE Count
  BY <1>5 DEF Count
<1>6. CASE Run
  BY <1>6 DEF Run, Answer
<1>7. CASE Prepare
  <2>1. CASE made' = "open" /\ Convert("stmt") /\ UNCHANGED err
    BY <1>7, <2>1 DEF Prepare, Convert
  <2>2. CASE made' # "open" /\ path' = path /\ pc' = "end" /\ err' # "nil" /\ err' \in {"bad", "other"}
    BY <1>7, <2>2 DEF Prepare
  <2> QED
    BY <1>7, <2>1, <2>2 DEF Prepare
<1>8. CASE Begin
  BY <1>8 DEF Begin
<1>9. CASE End
  BY <1>9 DEF End, MaxBadConnRetries
<1>10. CASE UNCHANGED callVars
  BY <1>10 DEF callVars
<1> QED
  BY <1>1, <1>2, <1>3, <1>4, <1>5, <1>6, <1>7, <1>8, <1>9, <1>10 DEF Next

(* A call keeps the invariant of the work for ever.                       *)
LEMMA CallInvAlways == Spec => []CallInv
  BY InitCallInv, NextCallInv, PTL DEF Spec

(* However often a call is tried, the driver does what was asked at most  *)
(* once, once when the call succeeds, never when it gives up with         *)
(* ErrBadConn.                                                            *)
THEOREM CallRunsOnce == Spec => []RunsOnce
<1>1. CallInv => RunsOnce
  BY DEF CallInv, ControlTyped, RanInv, RunsOnce, Working, Converting, Ended
<1> QED
  BY CallInvAlways, <1>1, PTL

(* A call that fails has given its connection back, and no connection     *)
(* goes back with a statement or a transaction open on it.                *)
THEOREM CallLeavesNothing == Spec => []NothingLeft
<1>1. CallInv => NothingLeft
  BY DEF CallInv
<1> QED
  BY CallInvAlways, <1>1, PTL

------------------------------------------------------------------------------
(* The arguments of the call.                                             *)

SlotType == [name : Nat, val : Nat, is : Is]

\* How many slots have an argument, the one that is being checked included.
Carried == IF pc = "check" THEN filled + 1 ELSE filled

HasColumn(checkers) == \E k \in DOMAIN checkers : checkers[k] = "column"

(* As many slots are left as arguments.                                   *)
SlotsTyped ==
  /\ slots \in Seq(SlotType) /\ filled \in Nat /\ taken \in Nat /\ want \in Int
  /\ taken <= Len(args) /\ Carried <= Len(slots)
  /\ Len(slots) - Carried = Len(args) - taken

(* The arguments taken stand in their order.                              *)
OrderInv ==
  /\ \A i \in 1..Carried : slots[i].val \in 1..taken
  /\ \A i, j \in 1..Carried : i < j => slots[i].val < slots[j].val
  /\ pc = "check" => slots[Carried].val = taken

(* Only the next slot can have a name already, of a removed argument.     *)
NameInv ==
  /\ \A i \in 1..Carried :
       /\ args[slots[i].val] = "named" => slots[i].name = slots[i].val
       /\ slots[i].name \notin {0, slots[i].val} =>
            /\ args[slots[i].val] = "plain" /\ slots[i].name < slots[i].val
            /\ \A j \in 1..Carried : slots[j].val # slots[i].name
  /\ \A i \in (Carried + 1)..Len(slots) :
       slots[i].name # 0 =>
         /\ pc # "check" /\ i = Carried + 1 /\ slots[i].name <= taken
         /\ \A j \in 1..Carried : slots[j].val # slots[i].name

(* A value stays raw only in a slot that the statement does not expect.   *)
ValueInv ==
  /\ offers \in Seq(Checkers) /\ offers # <<>>
  /\ \A i \in 1..filled : slots[i].is = "raw" => want < i /\ HasColumn(offers)
  /\ pc = "check" => /\ route \in Seq(Checkers) /\ route # <<>>
                     /\ HasColumn(route) => HasColumn(offers)

Counted == pc = "run" => taken = Len(args) /\ (want # -1 => Len(slots) = want)

ArgsInv ==
  /\ args \in Seq(ArgKinds)
  /\ pc \in Converting => SlotsTyped /\ OrderInv /\ NameInv /\ ValueInv /\ Counted

(* Writing one slot.                                                      *)
LEMMA SlotWritten ==
  ASSUME NEW s \in Seq(SlotType), NEW k \in 1..Len(s), NEW kind \in Is
  PROVE  LET t == [s EXCEPT ![k].is = kind] IN
         /\ t \in Seq(SlotType) /\ Len(t) = Len(s)
         /\ \A i \in 1..Len(s) : /\ t[i].name = s[i].name /\ t[i].val = s[i].val
                                 /\ t[i].is = IF i = k THEN kind ELSE s[i].is
<1> DEFINE r == [s[k] EXCEPT !.is = kind]
<1>1. s[k] \in SlotType
  OBVIOUS
<1>2. r \in SlotType /\ r.name = s[k].name /\ r.val = s[k].val /\ r.is = kind
  BY <1>1 DEF SlotType
<1>3. [s EXCEPT ![k].is = kind] = [s EXCEPT ![k] = r]
  OBVIOUS
<1> HIDE DEF r
<1> QED
  BY <1>2, <1>3, ExceptSeq

(* A sequence that something is appended to is not empty.                 *)
LEMMA AppendedIsNotEmpty ==
  ASSUME NEW S, NEW s \in Seq(S), NEW t \in Seq(S), Len(t) = 1
  PROVE  s \o t \in Seq(S) /\ s \o t # <<>>
<1>1. s \o t \in Seq(S) /\ Len(s \o t) = Len(s) + Len(t)
  BY ConcatProperties, Zenon
<1>2. Len(<<>>) = 0 /\ Len(s) \in Nat
  OBVIOUS
<1> QED
  BY <1>1, <1>2

(* The checkers end with the default one.                                 *)
LEMMA EndsInDefault ==
  ASSUME NEW front \in Seq(Checkers), NEW middle \in Seq(Checkers)
  PROVE  /\ front \o middle \o <<"default">> \in Seq(Checkers)
         /\ front \o middle \o <<"default">> # <<>>
<1>1. <<"default">> \in Seq(Checkers) /\ Len(<<"default">>) = 1
  BY DEF Checkers
<1>2. front \o middle \in Seq(Checkers)
  BY ConcatProperties
<1> QED
  BY <1>1, <1>2, AppendedIsNotEmpty, Zenon

LEMMA ConvertInv ==
  ASSUME ArgsInv, args' = args, NEW p \in {"fast", "stmt"}, Convert(p)
  PROVE  ArgsInv'
<1> USE DEF Convert, Goto, Converting
<1>1. args \in Seq(ArgKinds) /\ Len(args) \in Nat
  BY DEF ArgsInv
<1>2. EmptySlot \in SlotType /\ EmptySlot.name = 0
  BY DEF EmptySlot, SlotType, Is
<1>3. slots' \in Seq(SlotType) /\ Len(slots') = Len(args)
      /\ \A i \in 1..Len(args) : slots'[i].name = 0
  BY <1>1, <1>2
<1>4. want' \in Int /\ filled' = 0 /\ taken' = 0 /\ pc' = "take"
  BY DEF Convert
<1>5. offers' \in Seq(Checkers) /\ offers' # <<>>
  <2>1. PICK front, middle \in Seq(Checkers) : offers' = front \o middle \o <<"default">>
    <3>1. \A checker \in Checkers : <<checker>> \in Seq(Checkers)
      OBVIOUS
    <3>2. <<>> \in Seq(Checkers)
      OBVIOUS
    <3> QED
      BY <3>1, <3>2 DEF Checkers
  <2> QED
    BY <2>1, EndsInDefault
<1>6. SlotsTyped' /\ OrderInv' /\ NameInv' /\ Counted'
  BY <1>1, <1>3, <1>4 DEF SlotsTyped, OrderInv, NameInv, Counted, Carried
<1>7. ValueInv'
  BY <1>4, <1>5 DEF ValueInv
<1> QED
  BY <1>1, <1>6, <1>7 DEF ArgsInv

(* A checker that passes an argument on or accepts it leaves the names    *)
(* and the order alone.                                                   *)
LEMMA WriteInv ==
  ASSUME ArgsInv, pc = "check", NEW kind \in Is, UNCHANGED <<args, offers, want, taken>>,
         slots' = [slots EXCEPT ![filled + 1].is = kind],
         \/ pc' = "take" /\ filled' = filled + 1
         \/ pc' = "check" /\ filled' = filled
  PROVE  SlotsTyped' /\ OrderInv' /\ NameInv' /\ Counted'
<1> USE DEF Converting
<1>1. SlotsTyped /\ OrderInv /\ NameInv /\ filled + 1 \in 1..Len(slots)
  BY DEF ArgsInv, SlotsTyped, Carried
<1>2. /\ slots' \in Seq(SlotType) /\ Len(slots') = Len(slots)
      /\ \A i \in 1..Len(slots) : slots'[i].name = slots[i].name /\ slots'[i].val = slots[i].val
  BY <1>1, SlotWritten DEF SlotsTyped
<1>3. Carried' = Carried /\ Carried = filled + 1
  BY <1>1 DEF Carried
<1>4. SlotsTyped'
  BY <1>1, <1>2, <1>3 DEF SlotsTyped
<1>5. OrderInv'
  BY <1>1, <1>2, <1>3, SMTT(40) DEF OrderInv, SlotsTyped
<1>6. NameInv'
  BY <1>1, <1>2, <1>3, SMTT(40) DEF NameInv, SlotsTyped
<1> QED
  BY <1>4, <1>5, <1>6 DEF Counted

(* Taking an argument names its slot after it, or after nothing, or keeps *)
(* the name of a removed one.                                             *)
LEMMA TakeInv == ArgsInv /\ Take => ArgsInv'
<1> SUFFICES ASSUME ArgsInv, Take PROVE ArgsInv'
  OBVIOUS
<1> USE DEF Converting, Goto, Fail
<1>1. CASE args[taken + 1] = "badname"
  BY <1>1 DEF Take, ArgsInv
<1>2. CASE args[taken + 1] # "badname"
  <2> DEFINE k == filled + 1
             n == CASE args[taken + 1] = "named"  -> taken + 1
                    [] args[taken + 1] = "noname" -> 0
                    [] OTHER -> slots[k].name
             r == [name |-> n, val |-> taken + 1, is |-> "raw"]
  <2>1. /\ SlotsTyped /\ OrderInv /\ NameInv /\ ValueInv /\ pc = "take"
        /\ taken < Len(args) /\ args \in Seq(ArgKinds)
    BY DEF Take, ArgsInv
  <2>2. k \in 1..Len(slots) /\ slots[k] \in SlotType /\ Carried = filled
    BY <2>1 DEF SlotsTyped, Carried
  <2>3. args[taken + 1] \in {"plain", "named", "noname"}
    BY <1>2, <2>1 DEF ArgKinds, SlotsTyped
  <2>4. r \in SlotType /\ r.name = n /\ r.val = taken + 1 /\ n \in Nat
    <3>1. slots[k].name \in Nat /\ taken + 1 \in Nat
      BY <2>1, <2>2 DEF SlotType, SlotsTyped
    <3>2. n \in Nat
      BY <2>3, <3>1
    <3> HIDE DEF n
    <3> QED
      BY <3>1, <3>2 DEF SlotType, Is
  <2>5. slots' = [slots EXCEPT ![k] = r]
    <3>1. slots' = [slots EXCEPT ![filled + 1] =
                      [name |-> CASE args[taken + 1] = "named"  -> taken + 1
                                  [] args[taken + 1] = "noname" -> 0
                                  [] OTHER -> @.name,
                       val  |-> taken + 1, is |-> "raw"]]
      BY <1>2 DEF Take
    <3> QED
      BY <3>1
  <2>6. /\ pc' = "check" /\ taken' = taken + 1 /\ route' = offers
        /\ UNCHANGED <<args, offers, want, filled>>
    BY <1>2 DEF Take
  <2>7. Carried' = k
    BY <2>1, <2>6 DEF Carried, SlotsTyped
  <2>8. /\ args[r.val] = "named" => n = r.val
        /\ n \notin {0, r.val} =>
             /\ args[r.val] = "plain" /\ n < r.val
             /\ \A j \in 1..filled : slots[j].val # n
    BY <2>1, <2>2, <2>3, <2>4 DEF NameInv, SlotsTyped
  <2> HIDE DEF k, n, r
  <2>9. /\ slots' \in Seq(SlotType) /\ Len(slots') = Len(slots)
        /\ \A i \in 1..Len(slots) : slots'[i] = IF i = k THEN r ELSE slots[i]
    BY <2>1, <2>2, <2>4, <2>5, ExceptSeq DEF SlotsTyped
  <2>10. SlotsTyped'
    BY <2>1, <2>2, <2>6, <2>7, <2>9 DEF SlotsTyped, k
  <2>11. OrderInv'
    <3>1. \A i \in 1..k : i \in 1..Len(slots) /\ (i # k => i \in 1..filled)
      BY <2>1, <2>2 DEF SlotsTyped, k
    <3>2. \A i \in 1..k : slots'[i].val = IF i = k THEN taken + 1 ELSE slots[i].val
      BY <2>4, <2>9, <3>1
    <3>3. ASSUME NEW i \in 1..k PROVE slots'[i].val \in 1..(taken + 1)
      <4>1. CASE i = k
        BY <2>1, <3>2, <4>1 DEF SlotsTyped
      <4>2. CASE i # k
        <5>1. slots'[i].val = slots[i].val /\ slots[i].val \in 1..taken
          BY <2>1, <2>2, <3>1, <3>2, <4>2 DEF OrderInv
        <5> QED
          BY <2>1, <5>1 DEF SlotsTyped
      <4> QED
        BY <4>1, <4>2
    <3>4. ASSUME NEW i \in 1..k, NEW j \in 1..k, i < j PROVE slots'[i].val < slots'[j].val
      <4>1. i # k
        BY <2>1, <2>2, <3>4 DEF k, SlotsTyped
      <4> QED
        BY <2>1, <2>2, <3>1, <3>2, <3>4, <4>1, SMTT(40) DEF SlotsTyped, OrderInv
    <3>5. slots'[k].val = taken + 1
      BY <2>2, <2>4, <2>9
    <3> QED
      BY <2>6, <2>7, <3>3, <3>4, <3>5 DEF OrderInv
  <2>12. NameInv'
    <3>1. ASSUME NEW i \in 1..k
          PROVE  /\ args'[slots'[i].val] = "named" => slots'[i].name = slots'[i].val
                 /\ slots'[i].name \notin {0, slots'[i].val} =>
                      /\ args'[slots'[i].val] = "plain" /\ slots'[i].name < slots'[i].val
                      /\ \A j \in 1..k : slots'[j].val # slots'[i].name
      <4>1. CASE i = k
        BY <2>1, <2>2, <2>4, <2>6, <2>8, <2>9, <4>1, SMTT(40) DEF SlotsTyped, k
      <4>2. CASE i # k
        <5>1. i \in 1..filled /\ slots'[i] = slots[i] /\ slots[i].val \in 1..taken
          BY <2>1, <2>2, <2>9, <4>2 DEF SlotsTyped, OrderInv, k
        <5>2. /\ args[slots[i].val] = "named" => slots[i].name = slots[i].val
              /\ slots[i].name \notin {0, slots[i].val} =>
                   /\ args[slots[i].val] = "plain" /\ slots[i].name < slots[i].val
                   /\ \A j \in 1..filled : slots[j].val # slots[i].name
          BY <2>1, <2>2, <5>1 DEF NameInv
        <5>3. ASSUME NEW j \in 1..k, slots[i].name < slots[i].val,
                     \A m \in 1..filled : slots[m].val # slots[i].name
              PROVE  slots'[j].val # slots[i].name
          <6>1. slots[i].name \in Nat /\ slots[i].name < taken + 1
            <7>1. slots[i] \in SlotType /\ taken \in Nat
              BY <2>1, <2>2, <5>1 DEF SlotsTyped, k
            <7>2. slots[i].name \in Nat /\ slots[i].val \in Nat
              BY <7>1 DEF SlotType
            <7> QED
              BY <5>1, <5>3, <7>1, <7>2
          <6>2. CASE j = k
            BY <2>2, <2>4, <2>9, <6>1, <6>2
          <6>3. CASE j # k
            BY <2>1, <2>2, <2>9, <5>3, <6>3 DEF SlotsTyped, k
          <6> QED
            BY <6>2, <6>3
        <5> QED
          BY <2>6, <5>1, <5>2, <5>3
      <4> QED
        BY <4>1, <4>2
    <3>2. ASSUME NEW i \in (k + 1)..Len(slots) PROVE slots'[i].name = 0
      BY <2>1, <2>2, <2>9 DEF SlotsTyped, NameInv, k
    <3> QED
      BY <2>2, <2>7, <2>9, <3>1, <3>2 DEF NameInv
  <2>13. ValueInv'
    <3>1. ASSUME NEW i \in 1..filled PROVE slots'[i].is = slots[i].is
      BY <2>1, <2>2, <2>9 DEF SlotsTyped, k
    <3> QED
      BY <2>1, <2>6, <3>1 DEF ValueInv
  <2> QED
    BY <2>1, <2>6, <2>10, <2>11, <2>12, <2>13 DEF ArgsInv, Counted
<1> QED
  BY <1>1, <1>2

(* A sequence without its last element.                                   *)
LEMMA FrontOfSlots ==
  ASSUME NEW s \in Seq(SlotType), Len(s) > 0
  PROVE  /\ Front(s) \in Seq(SlotType) /\ Len(Front(s)) = Len(s) - 1
         /\ \A i \in 1..(Len(s) - 1) : Front(s)[i] = s[i]
<1> DEFINE n == Len(s) - 1
<1>1. n \in Nat /\ \A i \in 1..n : s[i] \in SlotType
  OBVIOUS
<1>2. Front(s) = SubSeq(s, 1, n)
  BY DEF Front
<1> HIDE DEF n
<1>3. /\ SubSeq(s, 1, n) \in Seq(SlotType)
      /\ Len(SubSeq(s, 1, n)) = IF 1 <= n THEN n - 1 + 1 ELSE 0
      /\ \A i \in 1..(n - 1 + 1) : SubSeq(s, 1, n)[i] = s[1 + i - 1]
  BY <1>1, SubSeqProperties
<1>4. Front(s) \in Seq(SlotType) /\ Len(Front(s)) = n
  BY <1>1, <1>2, <1>3
<1>5. ASSUME NEW i \in 1..n PROVE Front(s)[i] = s[i]
  <2>1. i \in 1..(n - 1 + 1) /\ 1 + i - 1 = i
    BY <1>1
  <2> QED
    BY <1>2, <1>3, <2>1
<1> QED
  BY <1>4, <1>5 DEF n

(* Removing an argument removes a slot from the end, so the next argument *)
(* finds the slot of this one.                                            *)
LEMMA DropInv ==
  ASSUME ArgsInv, pc = "check", UNCHANGED <<args, offers, want, taken>>, Drop
  PROVE  ArgsInv'
<1> USE DEF Converting, Goto
<1>1. SlotsTyped /\ OrderInv /\ NameInv /\ ValueInv /\ args \in Seq(ArgKinds)
  BY DEF ArgsInv
<1>2. /\ slots' = Front(slots) /\ pc' = "take"
      /\ UNCHANGED <<args, offers, want, taken, filled, route>>
  BY DEF Drop
<1>3. Carried = filled + 1 /\ Carried' = filled /\ Len(slots) \in Nat /\ filled < Len(slots)
  BY <1>1, <1>2 DEF SlotsTyped, Carried
<1>4. /\ slots' \in Seq(SlotType) /\ Len(slots') = Len(slots) - 1
      /\ \A i \in 1..(Len(slots) - 1) : slots'[i] = slots[i]
  <2>1. slots \in Seq(SlotType) /\ Len(slots) > 0
    BY <1>1, <1>3 DEF SlotsTyped
  <2> QED
    BY <1>2, <2>1, FrontOfSlots
<1>0. \A i \in 1..filled : i \in 1..Carried /\ i \in 1..Len(slots) /\ slots'[i] = slots[i]
  BY <1>1, <1>3, <1>4 DEF SlotsTyped
<1>5. SlotsTyped'
  BY <1>1, <1>2, <1>3, <1>4 DEF SlotsTyped
<1>6. OrderInv'
  <2>1. \A i \in 1..filled : slots'[i].val \in 1..taken
    BY <1>0, <1>1 DEF OrderInv
  <2>2. \A i, j \in 1..filled : i < j => slots'[i].val < slots'[j].val
    BY <1>0, <1>1 DEF OrderInv
  <2> QED
    BY <1>2, <1>3, <2>1, <2>2 DEF OrderInv
<1>7. NameInv'
  <2>1. \A i \in 1..filled :
          /\ args[slots'[i].val] = "named" => slots'[i].name = slots'[i].val
          /\ slots'[i].name \notin {0, slots'[i].val} =>
               /\ args[slots'[i].val] = "plain" /\ slots'[i].name < slots'[i].val
               /\ \A j \in 1..filled : slots'[j].val # slots'[i].name
    BY <1>0, <1>1 DEF NameInv
  <2>2. ASSUME NEW i \in (filled + 1)..(Len(slots) - 1), slots'[i].name # 0
        PROVE  /\ i = filled + 1 /\ slots'[i].name <= taken
               /\ \A j \in 1..filled : slots'[j].val # slots'[i].name
    <3>1. slots'[i] = slots[i] /\ i \in 1..Len(slots)
      BY <1>1, <1>3, <1>4 DEF SlotsTyped
    <3>2. i = Carried
      <4>1. i \in Carried..Len(slots)
        BY <1>1, <1>3, <3>1 DEF SlotsTyped
      <4>2. i \notin (Carried + 1)..Len(slots)
        BY <1>1, <2>2, <3>1 DEF NameInv
      <4> QED
        BY <1>1, <1>3, <4>1, <4>2 DEF SlotsTyped
    <3>3. slots[i].val = taken /\ slots[i] \in SlotType /\ taken \in Nat
      BY <1>1, <3>1, <3>2 DEF OrderInv, SlotsTyped
    <3>4. \A j \in 1..filled : j \in 1..Carried /\ j < i /\ slots'[j] = slots[j]
      BY <1>0, <1>1, <1>3, <3>2 DEF SlotsTyped
    <3>5. i \in 1..Carried
      BY <1>1, <1>3, <3>2 DEF SlotsTyped
    <3>6. CASE slots[i].name = taken
      <4>1. \A j \in 1..filled : slots[j].val < slots[i].val /\ slots[j].val \in 1..taken
        BY <1>1, <3>4, <3>5 DEF OrderInv
      <4> QED
        BY <1>3, <3>1, <3>2, <3>3, <3>4, <3>6, <4>1
    <3>7. CASE slots[i].name # taken
      <4>1. slots[i].name < taken /\ \A j \in 1..Carried : slots[j].val # slots[i].name
        BY <1>1, <2>2, <3>1, <3>3, <3>5, <3>7 DEF NameInv
      <4> QED
        BY <1>3, <3>1, <3>2, <3>3, <3>4, <4>1 DEF SlotType
    <3> QED
      BY <3>6, <3>7
  <2> QED
    BY <1>2, <1>3, <1>4, <2>1, <2>2 DEF NameInv
<1>8. ValueInv'
  BY <1>0, <1>1, <1>2 DEF ValueInv
<1> QED
  BY <1>1, <1>2, <1>5, <1>6, <1>7, <1>8 DEF ArgsInv, Counted
(* Whatever the checkers answer, the arguments stay in order.             *)
LEMMA CheckInv == ArgsInv /\ Check => ArgsInv'
<1> SUFFICES ASSUME ArgsInv, Check PROVE ArgsInv'
  OBVIOUS
<1> USE DEF Converting, Goto
<1>1. /\ SlotsTyped /\ ValueInv /\ args \in Seq(ArgKinds) /\ pc = "check"
      /\ UNCHANGED <<args, offers, want, taken>>
  BY DEF Check, ArgsInv
<1>2. filled \in Nat /\ filled + 1 \in 1..Len(slots)
  BY <1>1 DEF SlotsTyped, Carried
<1>3. route \in Seq(Checkers) /\ route # <<>> /\ (HasColumn(route) => HasColumn(offers))
  BY <1>1 DEF ValueInv
<1>4. ASSUME NEW kind \in Is, Accept(kind),
             kind = "raw" => Head(route) = "column" /\ want <= filled
      PROVE  ArgsInv'
  <2>1. /\ slots' = [slots EXCEPT ![filled + 1].is = kind]
        /\ pc' = "take" /\ filled' = filled + 1
    BY <1>4 DEF Accept
  <2>2. SlotsTyped' /\ OrderInv' /\ NameInv' /\ Counted'
    BY <1>1, <2>1, WriteInv
  <2>3. \A i \in 1..Len(slots) : slots'[i].is = IF i = filled + 1 THEN kind ELSE slots[i].is
    BY <1>1, <1>2, <2>1, SlotWritten DEF SlotsTyped
  <2>4. kind = "raw" => want < filled + 1 /\ HasColumn(offers)
    <3>1. Head(route) = "column" => HasColumn(route)
      BY <1>3 DEF HasColumn
    <3> QED
      BY <1>1, <1>2, <1>3, <1>4, <3>1 DEF SlotsTyped
  <2>5. ASSUME NEW i \in 1..(filled + 1), slots'[i].is = "raw"
        PROVE  want < i /\ HasColumn(offers)
    <3>1. i \in 1..Len(slots)
      BY <1>1, <1>2 DEF SlotsTyped
    <3>2. CASE i = filled + 1
      BY <2>3, <2>4, <2>5, <3>1, <3>2
    <3>3. CASE i # filled + 1
      BY <1>1, <1>2, <2>3, <2>5, <3>1, <3>3 DEF ValueInv
    <3> QED
      BY <3>2, <3>3
  <2>6. ValueInv'
    BY <1>1, <2>1, <2>5 DEF ValueInv
  <2> QED
    BY <1>1, <2>2, <2>6 DEF ArgsInv
<1>5. ASSUME NEW kind \in Is, SkipTo(kind) PROVE ArgsInv'
  <2>1. /\ slots' = [slots EXCEPT ![filled + 1].is = kind]
        /\ pc' = "check" /\ filled' = filled
        /\ route' = IF Len(route) > 1 THEN Tail(route) ELSE route
    BY <1>1, <1>5 DEF SkipTo
  <2>2. SlotsTyped' /\ OrderInv' /\ NameInv' /\ Counted'
    BY <1>1, <2>1, WriteInv
  <2>3. \A i \in 1..filled : i \in 1..Len(slots) /\ slots'[i].is = slots[i].is
    BY <1>1, <1>2, <2>1, SlotWritten DEF SlotsTyped
  <2>4. route' \in Seq(Checkers) /\ route' # <<>> /\ (HasColumn(route') => HasColumn(route))
    <3>1. CASE Len(route) > 1
      <4>1. /\ Tail(route) \in Seq(Checkers) /\ Len(Tail(route)) = Len(route) - 1
            /\ \A i \in 1..Len(Tail(route)) : Tail(route)[i] = route[i + 1]
        BY <1>3, HeadTailProperties
      <4> QED
        BY <1>3, <2>1, <3>1, <4>1 DEF HasColumn
    <3>2. CASE ~(Len(route) > 1)
      BY <1>3, <2>1, <3>2
    <3> QED
      BY <3>1, <3>2
  <2>5. ValueInv'
    <3>1. HasColumn(route)' = HasColumn(route')
      BY DEF HasColumn
    <3>2. \A i \in 1..filled : slots'[i].is = "raw" => want < i /\ HasColumn(offers)
      BY <1>1, <2>3 DEF ValueInv
    <3> QED
      BY <1>1, <1>3, <2>1, <2>4, <3>1, <3>2 DEF ValueInv
  <2> QED
    BY <1>1, <2>2, <2>5 DEF ArgsInv
<1>6. CASE Drop
  BY <1>1, <1>6, DropInv
<1>7. CASE Refuse
  BY <1>1, <1>7 DEF Refuse, Fail, ArgsInv
<1>8. \/ Head(route) = "column" /\ want <= filled /\ Accept("raw")
      \/ \E kind \in Is \ {"raw"} : Accept(kind)
      \/ \E kind \in Is : SkipTo(kind)
      \/ Drop \/ Refuse
  BY DEF Check, Is
<1> QED
  BY <1>4, <1>5, <1>6, <1>7, <1>8 DEF Is

(* Every step keeps the invariant of the arguments.                       *)
LEMMA NextArgsInv == ArgsInv /\ [Next]_callVars => ArgsInv'
<1> SUFFICES ASSUME ArgsInv, [Next]_callVars PROVE ArgsInv'
  OBVIOUS
<1> USE DEF Converting, Goto, Fail
<1> DEFINE Same == /\ UNCHANGED <<args, offers, want, slots, filled, taken, route>>
                   /\ pc' = pc \/ pc' \notin Converting
<1>1. CASE Same
  <2>1. CASE pc' \notin Converting
    BY <1>1, <2>1 DEF ArgsInv
  <2>2. CASE pc' = pc
    BY <1>1, <2>2 DEF ArgsInv, SlotsTyped, OrderInv, NameInv, ValueInv, Counted, Carried,
                      HasColumn
  <2> QED
    BY <1>1, <2>1, <2>2
<1>2. CASE Cancel \/ Run \/ Begin \/ End \/ UNCHANGED callVars
  <2>1. UNCHANGED <<args, offers, want, slots, filled, taken, route>>
    BY <1>2 DEF Cancel, Run, Begin, End, callVars, argVars
  <2>2. pc' = pc \/ pc' \notin Converting
    BY <1>2 DEF Cancel, Run, Begin, End, callVars
  <2> QED
    BY <1>1, <2>1, <2>2
<1>3. CASE GetConn
  <2>1. args' = args
    BY <1>3 DEF GetConn
  <2>2. CASE Convert("fast")
    BY <2>1, <2>2, ConvertInv
  <2>3. CASE pc' \notin Converting
    BY <2>1, <2>3 DEF ArgsInv
  <2> QED
    BY <1>3, <2>2, <2>3 DEF GetConn
<1>4. CASE Prepare
  <2>1. args' = args
    BY <1>4 DEF Prepare
  <2>2. CASE Convert("stmt")
    BY <2>1, <2>2, ConvertInv
  <2>3. CASE pc' \notin Converting
    BY <2>1, <2>3 DEF ArgsInv
  <2> QED
    BY <1>4, <2>2, <2>3 DEF Prepare
<1>5. CASE Count
  <2>1. /\ pc = "take" /\ taken = Len(args)
        /\ UNCHANGED <<args, offers, want, slots, filled, taken, route>>
    BY <1>5 DEF Count, argVars
  <2>2. CASE pc' = "end"
    BY <1>1, <2>1, <2>2
  <2>3. CASE pc' = "run" /\ (want # -1 => Len(slots) = want)
    BY <2>1, <2>3 DEF ArgsInv, SlotsTyped, OrderInv, NameInv, ValueInv, Counted, Carried,
                      HasColumn
  <2> QED
    BY <1>5, <2>2, <2>3 DEF Count
<1> QED
  BY <1>2, <1>3, <1>4, <1>5, TakeInv, CheckInv DEF Next

(* The invariant of the arguments holds before the call.                  *)
LEMMA InitArgsInv == Init => ArgsInv
<1> SUFFICES ASSUME Init PROVE ArgsInv
  OBVIOUS
<1>1. PICK n \in 0..MaxArgs : args \in [1..n -> ArgKinds]
  BY DEF Init, SeqOf
<1>2. args \in Seq(ArgKinds)
  BY <1>1, MaxArgsAssumption, SeqDef DEF MaxArgsAssumption
<1> QED
  BY <1>2 DEF Init, ArgsInv, Converting

(* With every argument taken, the invariant says what the driver gets.    *)
LEMMA ArgsInvAtRun == ArgsInv => ArgsKept
<1> SUFFICES ASSUME ArgsInv, pc = "run" PROVE OrderKept /\ NamesOwn /\ ValuesConverted
  BY DEF ArgsKept
<1>1. /\ args \in Seq(ArgKinds)
      /\ SlotsTyped /\ OrderInv /\ NameInv /\ ValueInv /\ Counted
  BY DEF ArgsInv, Converting
<1>2. /\ filled = Len(slots) /\ Carried = filled /\ DOMAIN slots = 1..filled
      /\ slots \in Seq(SlotType) /\ taken = Len(args) /\ want \in Int /\ filled \in Nat
  BY <1>1 DEF SlotsTyped, Carried, Counted
<1>3. OrderKept
  BY <1>1, <1>2 DEF OrderKept, OrderInv, Counted
<1>4. NamesOwn
  <2>1. ASSUME NEW i \in DOMAIN slots, slots[i].name \notin {0, slots[i].val}
        PROVE  slots[i].name \in KeptOut
    <3>1. slots[i].val \in 1..taken /\ slots[i].name < slots[i].val /\ slots[i].name # 0
      BY <1>1, <1>2, <2>1 DEF OrderInv, NameInv
    <3>2. slots[i].name \in Nat
      <4>1. slots[i] \in SlotType
        BY <1>2
      <4> QED
        BY <4>1 DEF SlotType
    <3>3. slots[i].name \in 1..Len(args)
      BY <1>2, <3>1, <3>2
    <3>4. \A j \in DOMAIN slots : slots[j].val # slots[i].name
      BY <1>1, <1>2, <2>1 DEF NameInv
    <3> QED
      BY <3>3, <3>4 DEF KeptOut
  <2> QED
    BY <1>1, <1>2, <2>1 DEF NamesOwn, NameInv
<1>5. ValuesConverted
  <2>1. ASSUME NEW i \in DOMAIN slots, slots[i].is = "raw"
        PROVE  want = -1 /\ HasColumn(offers)
    BY <1>1, <1>2, <2>1 DEF ValueInv, Counted
  <2> QED
    BY <2>1 DEF ValuesConverted, HasColumn
<1> QED
  BY <1>3, <1>4, <1>5

(* The driver gets the arguments of the call, in order, as many as its    *)
(* statement wants, under their own names and converted, for any number   *)
(* of arguments and whatever the checkers answer.                         *)
THEOREM CallArgsKept == Spec => []ArgsKept
  BY InitArgsInv, NextArgsInv, ArgsInvAtRun, PTL DEF Spec
------------------------------------------------------------------------------
(* The types, and how often a call is tried.                              *)

(* The last attempt is the one that a new connection is made for.         *)
AttemptInv ==
  /\ attempt \in 0..MaxBadConnRetries + 1
  /\ pc = "conn" => attempt <= MaxBadConnRetries
  /\ ctx \in {"live", "ended"}

Fits(s) ==
  \A i \in 1..Len(s) : s[i].name \in 0..MaxArgs /\ s[i].val \in 0..MaxArgs

(* TypeOK of the arguments; the slots are typed by what is in them.       *)
DataInv ==
  /\ args \in Seq(ArgKinds) /\ Len(args) <= MaxArgs
  /\ slots \in Seq(SlotType) /\ Len(slots) <= MaxArgs /\ Fits(slots)
  /\ filled \in 0..MaxArgs /\ taken \in 0..MaxArgs /\ want \in -1..MaxArgs
  /\ offers \in Seq(Checkers) /\ Len(offers) <= 3
  /\ route \in Seq(Checkers) /\ Len(route) <= 3

(* A bounded sequence is a function from its indices.                     *)
LEMMA BoundedIsSeqOf ==
  ASSUME NEW S, NEW n \in Nat, NEW s \in Seq(S), Len(s) <= n
  PROVE  s \in SeqOf(S, n)
<1>1. Len(s) \in 0..n /\ s \in [1..Len(s) -> S]
  OBVIOUS
<1> QED
  BY <1>1 DEF SeqOf

(* And the other way round.                                               *)
LEMMA SeqOfIsBounded ==
  ASSUME NEW S, NEW n \in Nat, NEW s \in SeqOf(S, n)
  PROVE  s \in Seq(S) /\ Len(s) <= n
<1>1. PICK m \in 0..n : s \in [1..m -> S]
  BY DEF SeqOf
<1>2. s \in Seq(S)
  BY <1>1, SeqDef
<1>3. Len(s) = m
  BY <1>1, <1>2, LenProperties
<1> QED
  BY <1>2, <1>3

(* No more than MaxBadConnRetries attempts with cached connections, and   *)
(* one with a new one.                                                    *)
LEMMA NextAttemptInv == AttemptInv /\ [Next]_callVars => AttemptInv'
<1> SUFFICES ASSUME AttemptInv, [Next]_callVars PROVE AttemptInv'
  OBVIOUS
<1> USE DEF AttemptInv, MaxBadConnRetries, Goto, Fail
<1>1. CASE GetConn
  <2>1. pc = "conn" /\ attempt' = attempt + 1 /\ ctx' = ctx /\ pc' # "conn"
    BY <1>1 DEF GetConn, Convert
  <2> QED
    BY <2>1
<1>2. CASE End
  BY <1>2 DEF End
<1>3. CASE Prepare
  <2>1. attempt' = attempt /\ ctx' = ctx /\ pc' # "conn"
    BY <1>3 DEF Prepare, Convert
  <2> QED
    BY <2>1
<1>4. CASE Check
  <2>1. attempt' = attempt /\ ctx' = ctx /\ pc' # "conn"
    BY <1>4 DEF Check, Accept, SkipTo, Drop, Refuse
  <2> QED
    BY <2>1
<1>5. CASE Cancel \/ Take \/ Count \/ Run \/ Begin
  <2>1. attempt' = attempt /\ ctx' \in {ctx, "ended"} /\ (pc' = pc \/ pc' # "conn")
    BY <1>5 DEF Cancel, Take, Count, Run, Begin
  <2> QED
    BY <2>1
<1>6. CASE UNCHANGED callVars
  BY <1>6 DEF callVars
<1> QED
  BY <1>1, <1>2, <1>3, <1>4, <1>5, <1>6 DEF Next

(* A conversion starts with as many empty slots as there are arguments.   *)
LEMMA ConvertData ==
  ASSUME DataInv, args' = args, NEW p \in {"fast", "stmt"}, Convert(p)
  PROVE  DataInv'
<1> USE DEF Convert, MaxArgsAssumption
<1>1. args \in Seq(ArgKinds) /\ Len(args) \in Nat /\ Len(args) <= MaxArgs
  BY DEF DataInv
<1>2. EmptySlot \in SlotType /\ EmptySlot.name = 0 /\ EmptySlot.val = 0
  BY DEF EmptySlot, SlotType, Is
<1>3. slots' \in Seq(SlotType) /\ Len(slots') = Len(args) /\ Fits(slots')
  BY <1>1, <1>2, MaxArgsAssumption DEF Fits
<1>4. /\ want' \in -1..MaxArgs /\ filled' = 0 /\ taken' = 0
      /\ route' \in Seq(Checkers) /\ Len(route') <= 3
  BY MaxArgsAssumption
<1>5. offers' \in Seq(Checkers) /\ Len(offers') <= 3
  <2>0. PICK named, column \in BOOLEAN :
          offers' = (IF named THEN <<"named">> ELSE <<>>)
                      \o (IF column THEN <<"column">> ELSE <<>>) \o <<"default">>
    OBVIOUS
  <2> DEFINE front == IF named THEN <<"named">> ELSE <<>>
             middle == IF column THEN <<"column">> ELSE <<>>
  <2>b. ASSUME NEW checker \in Checkers, NEW asked \in BOOLEAN, NEW s,
               s = IF asked THEN <<checker>> ELSE <<>>
        PROVE  s \in Seq(Checkers) /\ Len(s) \in Nat /\ Len(s) <= 1
    BY <2>b
  <2>c. "named" \in Checkers /\ "column" \in Checkers
    BY DEF Checkers
  <2>1. /\ front \in Seq(Checkers) /\ Len(front) <= 1 /\ Len(front) \in Nat
        /\ middle \in Seq(Checkers) /\ Len(middle) <= 1 /\ Len(middle) \in Nat
    BY <2>b, <2>c
  <2>a. offers' = front \o middle \o <<"default">>
    BY <2>0
  <2> HIDE DEF front, middle
  <2>2. <<"default">> \in Seq(Checkers) /\ Len(<<"default">>) = 1
    BY DEF Checkers
  <2>3. front \o middle \in Seq(Checkers) /\ Len(front \o middle) = Len(front) + Len(middle)
    BY <2>1, ConcatProperties
  <2>4. Len(front \o middle \o <<"default">>) = Len(front \o middle) + Len(<<"default">>)
    BY <2>2, <2>3, ConcatProperties, Zenon
  <2>5. offers' \in Seq(Checkers)
    BY <2>1, <2>a, EndsInDefault
  <2> QED
    BY <2>1, <2>a, <2>2, <2>3, <2>4, <2>5
<1> QED
  BY <1>1, <1>3, <1>4, <1>5, MaxArgsAssumption DEF DataInv

(* A slot that is written keeps within the arguments.                     *)
LEMMA WrittenFits ==
  ASSUME DataInv, NEW k \in 1..Len(slots), NEW kind \in Is,
         slots' = [slots EXCEPT ![k].is = kind]
  PROVE  slots' \in Seq(SlotType) /\ Len(slots') = Len(slots) /\ Fits(slots')
<1>1. /\ slots' \in Seq(SlotType) /\ Len(slots') = Len(slots)
      /\ \A i \in 1..Len(slots) : slots'[i].name = slots[i].name /\ slots'[i].val = slots[i].val
  BY SlotWritten DEF DataInv
<1> QED
  BY <1>1 DEF DataInv, Fits

(* Taking and checking arguments keeps the types.                         *)
LEMMA TakeData == ArgsInv /\ DataInv /\ Take => DataInv'
<1> SUFFICES ASSUME ArgsInv, DataInv, Take PROVE DataInv'
  OBVIOUS
<1>1. /\ SlotsTyped /\ pc = "take" /\ taken < Len(args) /\ taken' = taken + 1
      /\ UNCHANGED <<args, offers, want, filled>>
  BY DEF Take, ArgsInv, Converting
<1>2. Len(args) \in Nat /\ taken' \in 0..MaxArgs /\ MaxArgs \in Nat
  BY <1>1, MaxArgsAssumption DEF DataInv, SlotsTyped, MaxArgsAssumption
<1>3. CASE args[taken + 1] = "badname"
  <2>1. UNCHANGED <<slots, route>>
    BY <1>3 DEF Take
  <2> QED
    BY <1>1, <1>2, <2>1 DEF DataInv, Fits
<1>4. CASE args[taken + 1] # "badname"
  <2> DEFINE k == filled + 1
             n == CASE args[taken + 1] = "named"  -> taken + 1
                    [] args[taken + 1] = "noname" -> 0
                    [] OTHER -> slots[k].name
             r == [name |-> n, val |-> taken + 1, is |-> "raw"]
  <2>1. k \in 1..Len(slots) /\ slots[k] \in SlotType /\ slots[k].name \in 0..MaxArgs
    BY <1>1 DEF SlotsTyped, Carried, DataInv, Fits
  <2>2. args[taken + 1] \in {"plain", "named", "noname"}
    BY <1>1, <1>4 DEF ArgKinds, SlotsTyped, DataInv
  <2>3. n \in 0..MaxArgs /\ taken + 1 \in 0..MaxArgs
    BY <1>1, <1>2, <2>1, <2>2
  <2>4. slots' = [slots EXCEPT ![k] = r]
    <3>1. slots' = [slots EXCEPT ![filled + 1] =
                      [name |-> CASE args[taken + 1] = "named"  -> taken + 1
                                  [] args[taken + 1] = "noname" -> 0
                                  [] OTHER -> @.name,
                       val  |-> taken + 1, is |-> "raw"]]
      BY <1>4 DEF Take
    <3> QED
      BY <3>1
  <2>5. route' = offers
    BY <1>4 DEF Take
  <2> HIDE DEF n
  <2>6. r \in SlotType /\ r.name = n /\ r.val = taken + 1
    BY <2>3 DEF SlotType, Is
  <2> HIDE DEF k, r
  <2>7. /\ slots' \in Seq(SlotType) /\ Len(slots') = Len(slots)
        /\ \A i \in 1..Len(slots) : slots'[i] = IF i = k THEN r ELSE slots[i]
    BY <2>1, <2>4, <2>6, ExceptSeq DEF DataInv
  <2>8. Fits(slots')
    BY <2>3, <2>6, <2>7 DEF DataInv, Fits
  <2> QED
    BY <1>1, <1>2, <2>5, <2>7, <2>8 DEF DataInv
<1> QED
  BY <1>3, <1>4

(* A checker writes the slot of its argument, or removes the last one.    *)
LEMMA CheckData == ArgsInv /\ DataInv /\ Check => DataInv'
<1> SUFFICES ASSUME ArgsInv, DataInv, Check PROVE DataInv'
  OBVIOUS
<1>1. /\ SlotsTyped /\ ValueInv /\ pc = "check"
      /\ UNCHANGED <<args, offers, want, taken>>
  BY DEF Check, ArgsInv, Converting
<1>2. /\ filled + 1 \in 1..Len(slots) /\ filled \in Nat /\ filled + 1 \in 0..MaxArgs
      /\ Len(slots) \in Nat
  BY <1>1, MaxArgsAssumption DEF SlotsTyped, Carried, DataInv, MaxArgsAssumption
<1>3. ASSUME NEW kind \in Is, Accept(kind) PROVE DataInv'
  <2>1. /\ slots' = [slots EXCEPT ![filled + 1].is = kind]
        /\ filled' = filled + 1 /\ route' = route
    BY <1>3 DEF Accept
  <2>2. slots' \in Seq(SlotType) /\ Len(slots') = Len(slots) /\ Fits(slots')
    BY <1>2, <2>1, WrittenFits
  <2> QED
    BY <1>1, <1>2, <2>1, <2>2 DEF DataInv
<1>4. ASSUME NEW kind \in Is, SkipTo(kind) PROVE DataInv'
  <2>1. /\ slots' = [slots EXCEPT ![filled + 1].is = kind]
        /\ filled' = filled /\ route' = IF Len(route) > 1 THEN Tail(route) ELSE route
    BY <1>4 DEF SkipTo
  <2>2. slots' \in Seq(SlotType) /\ Len(slots') = Len(slots) /\ Fits(slots')
    BY <1>2, <2>1, WrittenFits
  <2>3. route \in Seq(Checkers) /\ route # <<>> /\ Len(route) <= 3
    BY <1>1 DEF ValueInv, DataInv
  <2>4. Tail(route) \in Seq(Checkers) /\ Len(Tail(route)) = Len(route) - 1
    BY <2>3, HeadTailProperties
  <2>5. route' \in Seq(Checkers) /\ Len(route') <= 3
    BY <2>1, <2>3, <2>4
  <2> QED
    BY <1>1, <2>1, <2>2, <2>5 DEF DataInv
<1>5. CASE Drop
  <2>1. slots' = Front(slots) /\ UNCHANGED <<filled, route>>
    BY <1>5 DEF Drop
  <2>2. /\ slots' \in Seq(SlotType) /\ Len(slots') = Len(slots) - 1
        /\ \A i \in 1..(Len(slots) - 1) : slots'[i] = slots[i]
    <3>1. slots \in Seq(SlotType) /\ Len(slots) > 0
      BY <1>1, <1>2 DEF SlotsTyped
    <3> QED
      BY <2>1, <3>1, FrontOfSlots
  <2>3. Fits(slots') /\ Len(slots') <= MaxArgs
    BY <1>2, <2>2, MaxArgsAssumption DEF Fits, DataInv, MaxArgsAssumption
  <2> QED
    BY <1>1, <2>1, <2>2, <2>3 DEF DataInv
<1>6. CASE Refuse
  BY <1>1, <1>6 DEF Refuse, DataInv, Fits
<1>7. (\E kind \in Is : Accept(kind) \/ SkipTo(kind)) \/ Drop \/ Refuse
  BY DEF Check, Is
<1> QED
  BY <1>3, <1>4, <1>5, <1>6, <1>7

(* Every step keeps the types of the arguments.                           *)
LEMMA NextDataInv == ArgsInv /\ DataInv /\ [Next]_callVars => DataInv'
<1> SUFFICES ASSUME ArgsInv, DataInv, [Next]_callVars PROVE DataInv'
  OBVIOUS
<1>1. CASE UNCHANGED <<args, argVars>>
  BY <1>1 DEF argVars, DataInv, Fits
<1>2. CASE Cancel \/ Count \/ Run \/ Begin \/ End \/ UNCHANGED callVars
  BY <1>1, <1>2 DEF Cancel, Count, Run, Begin, End, callVars
<1>3. CASE GetConn
  BY <1>1, <1>3, ConvertData DEF GetConn
<1>4. CASE Prepare
  BY <1>1, <1>4, ConvertData DEF Prepare
<1> QED
  BY <1>2, <1>3, <1>4, TakeData, CheckData DEF Next

(* A call starts with arguments, and with no attempt.                     *)
LEMMA InitDataInv == Init => DataInv /\ AttemptInv
<1> SUFFICES ASSUME Init PROVE DataInv /\ AttemptInv
  OBVIOUS
<1>1. MaxArgs \in Nat
  BY MaxArgsAssumption DEF MaxArgsAssumption
<1>2. args \in Seq(ArgKinds) /\ Len(args) <= MaxArgs
  BY <1>1, SeqOfIsBounded DEF Init
<1>3. offers \in Seq(Checkers) /\ Len(offers) = 1 /\ slots = <<>> /\ route = <<>>
  BY DEF Init, Checkers
<1>4. DataInv
  BY <1>1, <1>2, <1>3 DEF Init, DataInv, Fits
<1> QED
  BY <1>4 DEF Init, AttemptInv, MaxBadConnRetries

(* What the invariants say of the types.                                  *)
LEMMA CallTyped == CallInv /\ AttemptInv /\ DataInv => TypeOK
<1> SUFFICES ASSUME CallInv, AttemptInv, DataInv PROVE TypeOK
  OBVIOUS
<1>1. MaxArgs \in Nat /\ 3 \in Nat
  BY MaxArgsAssumption DEF MaxArgsAssumption
<1>2. args \in SeqOf(ArgKinds, MaxArgs)
  BY <1>1, BoundedIsSeqOf DEF DataInv
<1>3. offers \in SeqOf(Checkers, 3) /\ route \in SeqOf(Checkers, 3)
  BY <1>1, BoundedIsSeqOf DEF DataInv
<1>4. slots \in SeqOf(Slot, MaxArgs)
  <2>1. ASSUME NEW i \in 1..Len(slots) PROVE slots[i] \in Slot
    <3>1. slots[i] \in SlotType /\ slots[i].name \in 0..MaxArgs /\ slots[i].val \in 0..MaxArgs
      BY DEF DataInv, Fits
    <3> QED
      BY <3>1 DEF SlotType, Slot
  <2>2. slots \in Seq(Slot)
    <3>1. slots \in Seq(SlotType)
      BY DEF DataInv
    <3> QED
      BY <2>1, <3>1
  <2>3. Len(slots) <= MaxArgs
    BY DEF DataInv
  <2> QED
    BY <1>1, <2>2, <2>3, BoundedIsSeqOf
<1>5. ran \in 0..MaxBadConnRetries + 1
  BY DEF CallInv, RanInv, MaxBadConnRetries
<1>6. pc \in {"conn", "prepare", "begin", "take", "check", "run", "end", "done"}
  BY DEF CallInv, ControlTyped, Working, Converting, Ended
<1>7. /\ op \in Ops /\ path \in {"fast", "stmt"} /\ err \in {"nil", "bad", "other"}
      /\ conn \in {"none", "held", "released", "kept"} /\ made \in {"none", "open", "closed"}
  BY DEF CallInv, ControlTyped
<1>8. /\ ctx \in {"live", "ended"} /\ attempt \in 0..MaxBadConnRetries + 1
      /\ want \in -1..MaxArgs /\ filled \in 0..MaxArgs /\ taken \in 0..MaxArgs
  BY DEF AttemptInv, DataInv
<1> QED
  BY <1>2, <1>3, <1>4, <1>5, <1>6, <1>7, <1>8 DEF TypeOK

(* Type correctness: a call asks for at most MaxBadConnRetries + 1        *)
(* connections, and no conversion leaves its slots.                       *)
THEOREM CallTypeCorrect == Spec => []TypeOK
  BY InitDataInv, NextDataInv, NextAttemptInv, InitArgsInv, NextArgsInv, CallInvAlways,
     CallTyped, PTL DEF Spec
==============================================================================
