---------------------------- MODULE IdleSliceProofs ----------------------------
(***************************************************************************)
(* Proofs about IdleSlice, for one setter and any number of connections:   *)
(* whatever is cut off, shifted, swept and appended to, every open         *)
(* connection is in one place, and db.freeConn behaves as the set that     *)
(* ConnPool has in its stead.                                              *)
(***************************************************************************)
EXTENDS IdleSlice, FiniteSetTheorems, TLAPS

(* Why the tail of the array is safe with one setter: db.freeConn cannot   *)
(* grow past the limit, which stays below the tail until it is closed.     *)
Layout ==
  /\ len <= maxIdle
  /\ \A s \in Setter : Closing(s) => /\ maxIdle < surplus[s].from
                                     /\ surplus[s].to <= cap[surplus[s].of]

(* Each connection is in one cell of what is listed.                       *)
Listed ==
  /\ \A i, j \in 1 .. len : array[cur][i] = array[cur][j] => i = j
  /\ \A s \in Setter :
       /\ \A i, j \in Cut(s) : array[surplus[s].of][i] = array[surplus[s].of][j] => i = j
       /\ hand[s] \notin Rest(s)

(* The open connections are those in one of the places, and no two places  *)
(* share one.                                                              *)
Partition ==
  /\ out \subseteq open /\ swept \subseteq open /\ out \cap swept = {}
  /\ freeConn \subseteq open \ (out \cup swept)
  /\ \A s \in Setter : Doomed(s) \subseteq open \ (out \cup swept \cup freeConn)
  /\ NoneLost

SliceInv == TypeOK /\ Layout /\ Listed /\ Partition

-------------------------------------------------------------------------------
(* The slice.                                                              *)

SliceTyped ==
  /\ cap \in [Arrays -> Nat]
  /\ DOMAIN array = Arrays /\ \A a \in Arrays : array[a] \in [1 .. cap[a] -> Cell]
  /\ cur \in Arrays
  /\ len \in 0 .. cap[cur]

LEMMA SliceCells ==
  ASSUME SliceTyped
  PROVE  /\ cap[cur] \in Nat /\ len \in 0 .. cap[cur]
         /\ array[cur] \in [1 .. cap[cur] -> Cell]
         /\ \A i \in 1 .. len : array[cur][i] \in Cell
<1>1. cap[cur] \in Nat /\ len \in 0 .. cap[cur] /\ array[cur] \in [1 .. cap[cur] -> Cell]
  BY DEF SliceTyped
<1>2. ASSUME NEW i \in 1 .. len PROVE array[cur][i] \in Cell
  <2>1. i \in 1 .. cap[cur]
    BY <1>1
  <2> QED
    BY <1>1, <2>1
<1> QED
  BY <1>1, <1>2

(* One array is written.                                                   *)
LEMMA Overwritten ==
  ASSUME SliceTyped, NEW a \in Arrays, NEW n \in Nat, NEW cells \in [1 .. n -> Cell],
         array' = [array EXCEPT ![a] = cells], cap' = [cap EXCEPT ![a] = n],
         cur' \in Arrays, len' \in 0 .. cap'[cur']
  PROVE  SliceTyped'
<1>1. cap' \in [Arrays -> Nat] /\ cap'[a] = n
  BY DEF SliceTyped
<1>2. DOMAIN array' = Arrays
  BY DEF SliceTyped
<1>3. ASSUME NEW b \in Arrays PROVE array'[b] \in [1 .. cap'[b] -> Cell]
  <2>1. CASE b = a
    <3>1. array'[b] = cells
      BY <2>1 DEF SliceTyped
    <3> QED
      BY <1>1, <2>1, <3>1
  <2>2. CASE b # a
    <3>1. array'[b] = array[b] /\ cap'[b] = cap[b]
      BY <2>2 DEF SliceTyped
    <3>2. array[b] \in [1 .. cap[b] -> Cell]
      BY DEF SliceTyped
    <3> QED
      BY <3>1, <3>2
  <2> QED
    BY <2>1, <2>2
<1> QED
  BY <1>1, <1>2, <1>3 DEF SliceTyped

(* append finds an array to grow into.                                     *)
LEMMA SpareArray ==
  ASSUME OneSetter, TypeOK
  PROVE  \E a \in Arrays : ~InUse(a)
<1>1. CASE Setter = {}
  <2>1. Arrays = 1 .. 2
    BY <1>1, FS_EmptySet DEF Arrays
  <2>2. PICK a \in Arrays : a # cur
    BY <2>1
  <2> QED
    BY <1>1, <2>2 DEF InUse
<1>2. ASSUME NEW s \in Setter PROVE \E a \in Arrays : ~InUse(a)
  <2>1. Setter = {s}
    BY DEF OneSetter
  <2> Cardinality(Setter) = 1
    BY <2>1, FS_Singleton, Zenon
  <2>2. Arrays = 1 .. 3
    BY DEF Arrays
  <2>3. PICK a \in Arrays : a # cur /\ a # surplus[s].of
    BY <2>2
  <2> QED
    BY <2>1, <2>3 DEF InUse
<1> QED
  BY <1>1, <1>2

(* append adds c to what is listed, and disturbs no tail.                  *)
LEMMA AppendAdds ==
  ASSUME OneSetter, TypeOK, Layout, HasRoom, NEW c \in Conn, Append1(c)
  PROVE  /\ SliceTyped'
         /\ len' = len + 1
         /\ \A i \in 1 .. len : array'[cur'][i] = array[cur][i]
         /\ array'[cur'][len + 1] = c
         /\ \A s \in Setter : Closing(s) =>
              /\ cap'[surplus[s].of] = cap[surplus[s].of]
              /\ \A i \in Cut(s) : array'[surplus[s].of][i] = array[surplus[s].of][i]
<1> USE DEF TypeOK
<1>1. CASE len < cap[cur]
  <2>1. /\ array' = [array EXCEPT ![cur] = [array[cur] EXCEPT ![len + 1] = c]]
        /\ UNCHANGED <<cur, cap>> /\ len' = len + 1
    BY <1>1 DEF Append1
  <2>2. len + 1 \in 1 .. cap[cur] /\ c \in Cell
    BY <1>1 DEF Cell
  <2>3. SliceTyped'
    <3>1. SliceTyped /\ cap = [cap EXCEPT ![cur] = cap[cur]]
      BY DEF SliceTyped
    <3>2. [array[cur] EXCEPT ![len + 1] = c] \in [1 .. cap[cur] -> Cell]
      BY <2>2
    <3>3. len' \in 0 .. cap'[cur'] /\ cap[cur] \in Nat
      BY <2>1, <2>2
    <3> QED
      BY <2>1, <3>1, <3>2, <3>3, Overwritten
  <2>4. \A s \in Setter : Closing(s) =>
          \A i \in Cut(s) : array'[surplus[s].of][i] = array[surplus[s].of][i]
    BY <2>1 DEF Layout, Cut, HasRoom
  <2> QED
    BY <2>1, <2>2, <2>3, <2>4
<1>2. CASE ~(len < cap[cur])
  <2> DEFINE size  == IF len = 0 THEN 1 ELSE 2 * len
             cells == [i \in 1 .. size |->
                         IF i <= len THEN array[cur][i] ELSE IF i = len + 1 THEN c ELSE Nil]
  <2>1. /\ cur' = CHOOSE a \in Arrays : ~InUse(a)
        /\ array' = [array EXCEPT ![cur'] = cells]
        /\ cap' = [cap EXCEPT ![cur'] = size]
        /\ len' = len + 1
    BY <1>2 DEF Append1
  <2>2. cur' \in Arrays /\ ~InUse(cur')
    BY <2>1, SpareArray
  <2>3. size \in Nat /\ len + 1 \in 1 .. size
    OBVIOUS
  <2>4. \A i \in 1 .. len : array[cur][i] \in Cell
    BY SliceCells DEF SliceTyped
  <2>5. cells \in [1 .. size -> Cell]
    BY <2>3, <2>4 DEF Cell
  <2>6. cells[len + 1] = c /\ \A i \in 1 .. len : cells[i] = array[cur][i]
    BY <2>3
  <2> HIDE DEF cells, size
  <2>7. SliceTyped'
    <3>1. SliceTyped /\ len' \in 0 .. cap'[cur']
      BY <2>1, <2>2, <2>3 DEF SliceTyped
    <3> QED
      BY <2>1, <2>2, <2>3, <2>5, <3>1, Overwritten
  <2>8. array'[cur'] = cells
    BY <2>1, <2>2
  <2>9. \A s \in Setter : Closing(s) => surplus[s].of # cur' /\ surplus[s].of \in Arrays
    BY <2>2 DEF InUse
  <2> QED
    BY <2>1, <2>2, <2>6, <2>7, <2>8, <2>9
<1> QED
  BY <1>1, <1>2

(* DB.conn takes the first of what is listed.                              *)
LEMMA TakeShifts ==
  ASSUME TypeOK, Layout, Take
  PROVE  /\ SliceTyped'
         /\ \A i \in 1 .. len' : array'[cur][i] = array[cur][i + 1]
         /\ \A s \in Setter : Closing(s) =>
              \A i \in Cut(s) : array'[surplus[s].of][i] = array[surplus[s].of][i]
<1> USE DEF TypeOK
<1> DEFINE cells == [i \in 1 .. cap[cur] |->
                       IF i < len THEN array[cur][i + 1] ELSE array[cur][i]]
<1>1. /\ array' = [array EXCEPT ![cur] = cells]
      /\ len' = len - 1 /\ len > 0 /\ UNCHANGED <<cap, cur>>
  BY DEF Take
<1>2. array[cur] \in [1 .. cap[cur] -> Cell] /\ len <= cap[cur] /\ len \in Nat
  OBVIOUS
<1>3. cells \in [1 .. cap[cur] -> Cell]
  BY <1>2
<1>4. /\ \A i \in 1 .. len - 1 : cells[i] = array[cur][i + 1]
      /\ \A i \in 1 .. cap[cur] : i > len => cells[i] = array[cur][i]
  BY <1>2
<1> HIDE DEF cells
<1>5. SliceTyped'
  <2>1. SliceTyped /\ cap = [cap EXCEPT ![cur] = cap[cur]]
    BY DEF SliceTyped
  <2>2. len' \in 0 .. cap'[cur'] /\ cap[cur] \in Nat
    BY <1>1, <1>2
  <2> QED
    BY <1>1, <1>3, <2>1, <2>2, Overwritten
<1>6. ASSUME NEW s \in Setter, Closing(s), NEW i \in Cut(s)
      PROVE  array'[surplus[s].of][i] = array[surplus[s].of][i]
  <2>1. surplus[s].of = cur => i \in 1 .. cap[cur] /\ i > len
    BY <1>2, <1>6 DEF Layout, Cut
  <2> QED
    BY <1>1, <1>4, <2>1
<1> QED
  BY <1>1, <1>4, <1>5, <1>6

(* The cleaner takes one out of what is listed.                            *)
LEMMA ExpiredLeaves ==
  ASSUME TypeOK, Layout, Expired
  PROVE  /\ SliceTyped'
         /\ len' = len - 1
         /\ at \in 1 .. len
         /\ \A i \in 1 .. len' :
              array'[cur][i] = IF i = at THEN array[cur][len] ELSE array[cur][i]
         /\ \A s \in Setter : Closing(s) =>
              \A i \in Cut(s) : array'[surplus[s].of][i] = array[surplus[s].of][i]
<1> USE DEF TypeOK
<1> DEFINE moved == [array[cur] EXCEPT ![at] = array[cur][len]]
           cells == [moved EXCEPT ![len] = Nil]
<1>1. /\ array' = [array EXCEPT ![cur] = cells]
      /\ len' = len - 1 /\ at <= len /\ UNCHANGED <<cap, cur>>
  BY DEF Expired
<1>2. array[cur] \in [1 .. cap[cur] -> Cell] /\ len \in 1 .. cap[cur] /\ at \in 1 .. len
  BY <1>1
<1>3. cells \in [1 .. cap[cur] -> Cell]
  BY <1>2 DEF Cell
<1>4. \A i \in 1 .. cap[cur] : cells[i] = IF i = len THEN Nil
                                          ELSE IF i = at THEN array[cur][len]
                                          ELSE array[cur][i]
  BY <1>2
<1> HIDE DEF cells
<1>5. SliceTyped'
  <2>1. SliceTyped /\ cap = [cap EXCEPT ![cur] = cap[cur]]
    BY DEF SliceTyped
  <2>2. len' \in 0 .. cap'[cur'] /\ cap[cur] \in Nat
    BY <1>1, <1>2
  <2> QED
    BY <1>1, <1>3, <2>1, <2>2, Overwritten
<1>6. ASSUME NEW s \in Setter, Closing(s), NEW i \in Cut(s)
      PROVE  array'[surplus[s].of][i] = array[surplus[s].of][i]
  <2>1. surplus[s].of = cur => i \in 1 .. cap[cur] /\ i > len
    BY <1>2, <1>6 DEF Layout, Cut
  <2> QED
    BY <1>1, <1>2, <1>4, <2>1
<1>7. \A i \in 1 .. len' :
        array'[cur][i] = IF i = at THEN array[cur][len] ELSE array[cur][i]
  BY <1>1, <1>2, <1>4
<1> QED
  BY <1>1, <1>2, <1>5, <1>6, <1>7

-------------------------------------------------------------------------------
(* What each operation does to the places of the connections.              *)

(* The tails that are to be closed stay as they were cut.                  *)
LEMMA TailsKept ==
  ASSUME TypeOK, UNCHANGED surplus,
         \A s \in Setter : Closing(s) =>
           \A i \in Cut(s) : array'[surplus[s].of][i] = array[surplus[s].of][i]
  PROVE  \A s \in Setter :
           /\ Cut(s)' = Cut(s) /\ Rest(s)' = Rest(s)
           /\ \A i \in Cut(s) : array'[surplus[s].of][i] = array[surplus[s].of][i]
<1> SUFFICES ASSUME NEW s \in Setter
             PROVE  /\ Cut(s)' = Cut(s) /\ Rest(s)' = Rest(s)
                    /\ \A i \in Cut(s) : array'[surplus[s].of][i] = array[surplus[s].of][i]
  OBVIOUS
<1>1. surplus[s].from \in Nat /\ surplus[s].to \in Nat
  BY DEF TypeOK
<1>2. ~Closing(s) => Cut(s) = {}
  BY <1>1 DEF Closing, Cut
<1>3. \A i \in Cut(s) : array'[surplus[s].of][i] = array[surplus[s].of][i]
  BY <1>2
<1>4. Cut(s)' = Cut(s)
  BY DEF Cut
<1> QED
  BY <1>3, <1>4 DEF Rest

LEMMA AppendPlace ==
  ASSUME TypeOK, Listed, NEW c \in Conn, c \notin freeConn, len' = len + 1,
         \A i \in 1 .. len : array'[cur'][i] = array[cur][i],
         array'[cur'][len + 1] = c
  PROVE  /\ freeConn' = freeConn \cup {c}
         /\ \A i, j \in 1 .. len' : array'[cur'][i] = array'[cur'][j] => i = j
<1>1. len \in Nat
  BY DEF TypeOK
<1>2. 1 .. len' = (1 .. len) \cup {len + 1}
  BY <1>1
<1>3. freeConn' = freeConn \cup {c}
  BY <1>2 DEF freeConn
<1>4. \A i \in 1 .. len : array[cur][i] # c
  BY DEF freeConn
<1>5. \A i, j \in 1 .. len' : array'[cur'][i] = array'[cur'][j] => i = j
  BY <1>2, <1>4 DEF Listed
<1> QED
  BY <1>3, <1>5

LEMMA TakePlace ==
  ASSUME TypeOK, Listed, len > 0, len' = len - 1, cur' = cur,
         \A i \in 1 .. len' : array'[cur][i] = array[cur][i + 1]
  PROVE  /\ freeConn' = freeConn \ {array[cur][1]} /\ array[cur][1] \in freeConn
         /\ \A i, j \in 1 .. len' : array'[cur][i] = array'[cur][j] => i = j
<1>1. len \in Nat \ {0}
  BY DEF TypeOK
<1>2. array[cur][1] \in freeConn
  BY <1>1 DEF freeConn
<1>3. \A i \in 1 .. len' : i + 1 \in 1 .. len /\ i + 1 # 1
  BY <1>1
<1>4. \A i \in 1 .. len : i # 1 => i - 1 \in 1 .. len' /\ (i - 1) + 1 = i
  BY <1>1
<1>5. freeConn' \subseteq freeConn \ {array[cur][1]}
  BY <1>1, <1>3 DEF freeConn, Listed
<1>6. freeConn \ {array[cur][1]} \subseteq freeConn'
  BY <1>4 DEF freeConn
<1>7. \A i, j \in 1 .. len' : array'[cur][i] = array'[cur][j] => i = j
  BY <1>1, <1>3 DEF Listed
<1> QED
  BY <1>2, <1>5, <1>6, <1>7

LEMMA ExpiredPlace ==
  ASSUME TypeOK, Listed, at \in 1 .. len, len' = len - 1, cur' = cur,
         \A i \in 1 .. len' :
           array'[cur][i] = IF i = at THEN array[cur][len] ELSE array[cur][i]
  PROVE  /\ freeConn' = freeConn \ {array[cur][at]} /\ array[cur][at] \in freeConn
         /\ \A i, j \in 1 .. len' : array'[cur][i] = array'[cur][j] => i = j
<1>1. len \in Nat \ {0} /\ 1 .. len = (1 .. len') \cup {len} /\ len \notin 1 .. len'
  BY DEF TypeOK
<1>2. array[cur][at] \in freeConn
  BY DEF freeConn
<1>3. freeConn' \subseteq freeConn \ {array[cur][at]}
  BY <1>1 DEF freeConn, Listed
<1>4. freeConn \ {array[cur][at]} \subseteq freeConn'
  <2> SUFFICES ASSUME NEW i \in 1 .. len, array[cur][i] # array[cur][at]
               PROVE  \E j \in 1 .. len' : array'[cur][j] = array[cur][i]
    BY DEF freeConn
  <2>1. CASE i = len
    BY <1>1, <2>1
  <2>2. CASE i # len
    BY <1>1, <2>2
  <2> QED
    BY <2>1, <2>2
<1>5. \A i, j \in 1 .. len' : array'[cur][i] = array'[cur][j] => i = j
  BY <1>1 DEF Listed
<1> QED
  BY <1>2, <1>3, <1>4, <1>5

-------------------------------------------------------------------------------
(* Each operation keeps the invariant.                                     *)

LEMMA InitInv == Init => SliceInv
<1> SUFFICES ASSUME Init PROVE SliceInv
  OBVIOUS
<1>1. 1 \in Arrays
  <2>1. Cardinality(Setter) \in Nat
    BY SliceAssumption, FS_CardinalityType
  <2> QED
    BY <2>1 DEF Arrays
<1>2. TypeOK
  BY <1>1, SliceAssumption DEF Init, TypeOK, Cell
<1>3. freeConn = {} /\ \A s \in Setter : Cut(s) = {} /\ Rest(s) = {} /\ Doomed(s) = {}
  BY DEF Init, freeConn, Cut, Rest, Doomed
<1>4. Layout
  BY SliceAssumption DEF Init, Layout, Closing
<1>5. Listed
  BY <1>3 DEF Init, Listed
<1>6. Partition
  BY <1>3 DEF Init, Partition, NoneLost
<1> QED
  BY <1>2, <1>4, <1>5, <1>6 DEF SliceInv

(* The cleaner's loop by itself moves no connection.                       *)
LEMMA KeptInv ==
  ASSUME SliceInv, UNCHANGED <<slice, maxIdle, setters, swept, out, open>>,
         pass' \in 0 .. 2, at' \in Nat \ {0}
  PROVE  SliceInv' /\ freeConn' = freeConn /\ \A s \in Setter : Doomed(s)' = Doomed(s)
<1> USE DEF slice, setters
<1>1. TypeOK'
  BY DEF SliceInv, TypeOK
<1>2. Layout'
  BY DEF SliceInv, Layout, Closing
<1>3. freeConn' = freeConn /\ \A s \in Setter : /\ Cut(s)' = Cut(s) /\ Rest(s)' = Rest(s)
                                                /\ Doomed(s)' = Doomed(s)
  BY DEF freeConn, Cut, Rest, Doomed
<1>4. Listed'
  BY <1>3 DEF SliceInv, Listed
<1>5. Partition'
  BY <1>3 DEF SliceInv, Partition, NoneLost
<1> QED
  BY <1>1, <1>2, <1>3, <1>4, <1>5 DEF SliceInv

LEMMA DialInv ==
  ASSUME SliceInv, NEW c \in Conn, Dial(c)
  PROVE  SliceInv' /\ freeConn' = freeConn /\ \A s \in Setter : Doomed(s)' = Doomed(s)
<1> USE DEF slice, setters, loop
<1>1. TypeOK'
  BY DEF SliceInv, TypeOK, Dial
<1>2. Layout'
  BY DEF SliceInv, Layout, Closing, Dial
<1>3. freeConn' = freeConn /\ \A s \in Setter : /\ Cut(s)' = Cut(s) /\ Rest(s)' = Rest(s)
                                                /\ Doomed(s)' = Doomed(s)
  BY DEF freeConn, Cut, Rest, Doomed, Dial
<1>4. Listed'
  BY <1>3 DEF SliceInv, Listed, Dial
<1>5. Partition'
  <2>1. c \notin open /\ open' = open \cup {c} /\ out' = out \cup {c} /\ swept' = swept
    BY DEF Dial
  <2> QED
    BY <1>3, <2>1 DEF SliceInv, Partition, NoneLost
<1> QED
  BY <1>1, <1>2, <1>3, <1>4, <1>5 DEF SliceInv

LEMMA PutInv ==
  ASSUME OneSetter, SliceInv, NEW c \in Conn, Put(c)
  PROVE  /\ SliceInv'
         /\ freeConn' = (IF HasRoom THEN freeConn \cup {c} ELSE freeConn)
         /\ \A s \in Setter : Doomed(s)' = Doomed(s)
<1> USE DEF slice, setters, loop
<1>1. CASE HasRoom
  <2>1. /\ Append1(c) /\ c \in out /\ out' = out \ {c}
        /\ UNCHANGED <<open, maxIdle, surplus, hand, pass, at, swept>>
    BY <1>1 DEF Put
  <2>2. c \notin freeConn
    BY <2>1 DEF SliceInv, Partition
  <2>3. /\ SliceTyped' /\ len' = len + 1
        /\ \A i \in 1 .. len : array'[cur'][i] = array[cur][i]
        /\ array'[cur'][len + 1] = c
        /\ \A s \in Setter : Closing(s) =>
             /\ cap'[surplus[s].of] = cap[surplus[s].of]
             /\ \A i \in Cut(s) : array'[surplus[s].of][i] = array[surplus[s].of][i]
    BY <1>1, <2>1, AppendAdds DEF SliceInv
  <2>4. /\ freeConn' = freeConn \cup {c}
        /\ \A i, j \in 1 .. len' : array'[cur'][i] = array'[cur'][j] => i = j
    BY <2>2, <2>3, AppendPlace DEF SliceInv
  <2>5. \A s \in Setter :
           /\ Cut(s)' = Cut(s) /\ Rest(s)' = Rest(s)
           /\ \A i \in Cut(s) : array'[surplus[s].of][i] = array[surplus[s].of][i]
    BY <2>1, <2>3, TailsKept DEF SliceInv
  <2>6. TypeOK'
    BY <2>1, <2>3 DEF SliceInv, TypeOK, SliceTyped
  <2>7. Layout'
    <3>1. len' <= maxIdle'
      BY <1>1, <2>1, <2>3 DEF SliceInv, TypeOK, HasRoom
    <3>2. \A s \in Setter : Closing(s)' => Closing(s)
      BY <2>1 DEF Closing
    <3> QED
      BY <2>1, <2>3, <3>1, <3>2 DEF SliceInv, Layout
  <2>8. Listed'
    BY <2>1, <2>4, <2>5 DEF SliceInv, Listed
  <2>9. \A s \in Setter : Doomed(s)' = Doomed(s)
    BY <2>1, <2>5 DEF Doomed
  <2>10. Partition'
    BY <2>1, <2>4, <2>9 DEF SliceInv, Partition, NoneLost
  <2> QED
    BY <1>1, <2>4, <2>6, <2>7, <2>8, <2>9, <2>10 DEF SliceInv
<1>2. CASE ~HasRoom
  <2>1. /\ c \in out /\ out' = out \ {c} /\ open' = open \ {c}
        /\ UNCHANGED <<slice, maxIdle, surplus, hand, pass, at, swept>>
    BY <1>2 DEF Put
  <2>2. TypeOK'
    BY <2>1 DEF SliceInv, TypeOK
  <2>3. Layout'
    BY <2>1 DEF SliceInv, Layout, Closing
  <2>4. freeConn' = freeConn /\ \A s \in Setter : /\ Cut(s)' = Cut(s) /\ Rest(s)' = Rest(s)
                                                  /\ Doomed(s)' = Doomed(s)
    BY <2>1 DEF freeConn, Cut, Rest, Doomed
  <2>5. Listed'
    BY <2>1, <2>4 DEF SliceInv, Listed
  <2>6. Partition'
    BY <2>1, <2>4 DEF SliceInv, Partition, NoneLost
  <2> QED
    BY <1>2, <2>2, <2>3, <2>4, <2>5, <2>6 DEF SliceInv
<1> QED
  BY <1>1, <1>2

LEMMA TakeInv ==
  ASSUME SliceInv, Take
  PROVE  /\ SliceInv'
         /\ freeConn' = freeConn \ {array[cur][1]} /\ array[cur][1] \in freeConn
         /\ \A s \in Setter : Doomed(s)' = Doomed(s)
<1> USE DEF slice, setters, loop
<1> DEFINE c == array[cur][1]
<1>1. /\ len > 0 /\ len' = len - 1 /\ out' = out \cup {c}
      /\ UNCHANGED <<cap, cur, maxIdle, surplus, hand, pass, at, swept, open>>
  BY DEF Take
<1>2. /\ SliceTyped'
      /\ \A i \in 1 .. len' : array'[cur][i] = array[cur][i + 1]
      /\ \A s \in Setter : Closing(s) =>
           \A i \in Cut(s) : array'[surplus[s].of][i] = array[surplus[s].of][i]
  BY TakeShifts DEF SliceInv
<1>3. /\ freeConn' = freeConn \ {c} /\ c \in freeConn
      /\ \A i, j \in 1 .. len' : array'[cur][i] = array'[cur][j] => i = j
  BY <1>1, <1>2, TakePlace DEF SliceInv
<1>4. \A s \in Setter :
         /\ Cut(s)' = Cut(s) /\ Rest(s)' = Rest(s)
         /\ \A i \in Cut(s) : array'[surplus[s].of][i] = array[surplus[s].of][i]
  BY <1>1, <1>2, TailsKept DEF SliceInv
<1>5. c \in open /\ c \in Conn
  BY <1>3 DEF SliceInv, Partition, TypeOK
<1> HIDE DEF c
<1>6. TypeOK'
  BY <1>1, <1>2, <1>5 DEF SliceInv, TypeOK, SliceTyped
<1>7. Layout'
  BY <1>1 DEF SliceInv, Layout, Closing, TypeOK
<1>8. Listed'
  BY <1>1, <1>3, <1>4 DEF SliceInv, Listed
<1>9. \A s \in Setter : Doomed(s)' = Doomed(s)
  BY <1>1, <1>4 DEF Doomed
<1>10. Partition'
  BY <1>1, <1>3, <1>5, <1>9 DEF SliceInv, Partition, NoneLost
<1> QED
  BY <1>3, <1>6, <1>7, <1>8, <1>9, <1>10 DEF SliceInv, c

LEMMA ExpiredInv ==
  ASSUME SliceInv, Expired
  PROVE  /\ SliceInv'
         /\ freeConn' = freeConn \ {array[cur][at]} /\ array[cur][at] \in freeConn
         /\ \A s \in Setter : Doomed(s)' = Doomed(s)
<1> USE DEF slice, setters, loop
<1> DEFINE c == array[cur][at]
<1>1. /\ swept' = swept \cup {c}
      /\ UNCHANGED <<cap, cur, maxIdle, surplus, hand, pass, at, out, open>>
  BY DEF Expired
<1>2. /\ SliceTyped' /\ len' = len - 1 /\ at \in 1 .. len
      /\ \A i \in 1 .. len' :
           array'[cur][i] = IF i = at THEN array[cur][len] ELSE array[cur][i]
      /\ \A s \in Setter : Closing(s) =>
           \A i \in Cut(s) : array'[surplus[s].of][i] = array[surplus[s].of][i]
  BY ExpiredLeaves DEF SliceInv
<1>3. /\ freeConn' = freeConn \ {c} /\ c \in freeConn
      /\ \A i, j \in 1 .. len' : array'[cur][i] = array'[cur][j] => i = j
  BY <1>1, <1>2, ExpiredPlace DEF SliceInv
<1>4. \A s \in Setter :
         /\ Cut(s)' = Cut(s) /\ Rest(s)' = Rest(s)
         /\ \A i \in Cut(s) : array'[surplus[s].of][i] = array[surplus[s].of][i]
  BY <1>1, <1>2, TailsKept DEF SliceInv
<1>5. c \in open /\ c \in Conn
  BY <1>3 DEF SliceInv, Partition, TypeOK
<1> HIDE DEF c
<1>6. TypeOK'
  BY <1>1, <1>2, <1>5 DEF SliceInv, TypeOK, SliceTyped
<1>7. Layout'
  BY <1>1, <1>2 DEF SliceInv, Layout, Closing, TypeOK
<1>8. Listed'
  BY <1>1, <1>3, <1>4 DEF SliceInv, Listed
<1>9. \A s \in Setter : Doomed(s)' = Doomed(s)
  BY <1>1, <1>4 DEF Doomed
<1>10. Partition'
  BY <1>1, <1>3, <1>5, <1>9 DEF SliceInv, Partition, NoneLost
<1> QED
  BY <1>3, <1>6, <1>7, <1>8, <1>9, <1>10 DEF SliceInv, c

(* The surplus goes from the list to the tail of the setter.               *)
LEMMA SetMaxIdleInv ==
  ASSUME OneSetter, SliceInv, NEW s \in Setter, NEW n \in IdleLimits, SetMaxIdleConns(s, n)
  PROVE  /\ SliceInv'
         /\ Doomed(s) = {} /\ freeConn' \cap Doomed(s)' = {}
         /\ freeConn = freeConn' \cup Doomed(s)'
         /\ Doomed(s)' # {} => len > n
<1> USE DEF slice, setters, loop
<1>1. /\ maxIdle' = n /\ n \in Nat /\ hand[s] = Nil /\ ~Closing(s)
      /\ UNCHANGED <<array, cap, cur, hand, pass, at, swept, out, open>>
  BY SliceAssumption DEF SetMaxIdleConns
<1>2. Setter = {s}
  BY DEF OneSetter
<1>3. /\ cur \in Arrays /\ len \in Nat /\ len <= cap[cur] /\ cap[cur] \in Nat
      /\ surplus[s].from \in Nat /\ surplus[s].to \in Nat
  BY DEF SliceInv, TypeOK
<1>4. Cut(s) = {} /\ Rest(s) = {} /\ Doomed(s) = {}
  BY <1>1, <1>3 DEF Cut, Rest, Doomed, Closing
<1>5. Nil \notin freeConn
  BY SliceAssumption DEF SliceInv, Partition, TypeOK
<1>6. CASE len > n
  <2>1. surplus'[s] = Surplus(n) /\ len' = n /\ surplus' = [surplus EXCEPT ![s] = Surplus(n)]
    BY <1>6 DEF SetMaxIdleConns, SliceInv, TypeOK
  <2>2. Cut(s)' = n + 1 .. len /\ (surplus[s].of)' = cur /\ Closing(s)'
    BY <1>1, <1>3, <1>6, <2>1 DEF Cut, Surplus, Closing
  <2>3. Doomed(s)' = {array[cur][i] : i \in n + 1 .. len} /\ Rest(s)' = Doomed(s)'
    BY <1>1, <2>2 DEF Doomed, Rest
  <2>4. freeConn' = {array[cur][i] : i \in 1 .. n}
    BY <1>1, <2>1 DEF freeConn
  <2>5. 1 .. len = (1 .. n) \cup (n + 1 .. len) /\ (1 .. n) \cap (n + 1 .. len) = {}
    BY <1>1, <1>3, <1>6
  <2>6. freeConn = freeConn' \cup Doomed(s)'
    BY <2>3, <2>4, <2>5 DEF freeConn
  <2>7. freeConn' \cap Doomed(s)' = {}
    BY <2>3, <2>4, <2>5 DEF SliceInv, Listed
  <2>8. TypeOK'
    <3>1. Surplus(n) \in [of : Arrays, from : Nat \ {0}, to : Nat]
      BY <1>1, <1>3 DEF Surplus
    <3> QED
      BY <1>1, <1>3, <1>6, <2>1, <3>1 DEF SliceInv, TypeOK
  <2>9. Layout'
    BY <1>1, <1>2, <1>3, <2>1 DEF Layout, Surplus
  <2>10. Listed'
    <3>1. \A i, j \in 1 .. len : array[cur][i] = array[cur][j] => i = j
      BY DEF SliceInv, Listed
    <3>2. \A i, j \in 1 .. len' : array'[cur'][i] = array'[cur'][j] => i = j
      BY <1>1, <2>1, <2>5, <3>1
    <3>3. \A i, j \in Cut(s)' : array'[(surplus[s].of)'][i] = array'[(surplus[s].of)'][j] => i = j
      BY <1>1, <2>2, <2>5, <3>1
    <3>4. hand'[s] \notin Rest(s)'
      BY <1>1, <1>5, <2>3, <2>6
    <3> QED
      BY <1>2, <3>2, <3>3, <3>4 DEF Listed
  <2>11. Partition'
    <3>1. /\ out' \subseteq open' /\ swept' \subseteq open' /\ out' \cap swept' = {}
          /\ freeConn \subseteq open' \ (out' \cup swept')
      BY <1>1 DEF SliceInv, Partition
    <3>2. NoneLost'
      <4>1. \A c \in open : c \in out \cup swept \cup freeConn
        BY <1>2, <1>4 DEF SliceInv, Partition, NoneLost
      <4> QED
        BY <1>1, <2>6, <4>1 DEF NoneLost
    <3> QED
      BY <1>2, <2>6, <2>7, <3>1, <3>2 DEF Partition
  <2> QED
    BY <1>4, <1>6, <2>6, <2>7, <2>8, <2>9, <2>10, <2>11 DEF SliceInv
<1>7. CASE ~(len > n)
  <2>1. surplus' = surplus /\ len' = len
    BY <1>7 DEF SetMaxIdleConns
  <2>2. /\ freeConn' = freeConn /\ Cut(s)' = Cut(s) /\ Rest(s)' = Rest(s)
        /\ Doomed(s)' = Doomed(s)
    BY <1>1, <2>1 DEF freeConn, Cut, Rest, Doomed
  <2>3. TypeOK'
    BY <1>1, <2>1 DEF SliceInv, TypeOK
  <2>4. Layout'
    BY <1>1, <1>2, <1>3, <1>7, <2>1 DEF Layout, Closing
  <2>5. Listed'
    BY <1>1, <1>2, <2>1, <2>2 DEF SliceInv, Listed
  <2>6. Partition'
    BY <1>1, <1>2, <2>2 DEF SliceInv, Partition, NoneLost
  <2> QED
    BY <1>4, <2>2, <2>3, <2>4, <2>5, <2>6 DEF SliceInv
<1> QED
  BY <1>6, <1>7

(* The element in the setter's hand is still one that it has to close.     *)
LEMMA ReadNextInv ==
  ASSUME SliceInv, NEW s \in Setter, ReadNext(s)
  PROVE  SliceInv' /\ freeConn' = freeConn /\ \A t \in Setter : Doomed(t)' = Doomed(t)
<1> USE DEF slice, setters, loop
<1> DEFINE c == array[surplus[s].of][surplus[s].from]
<1>1. /\ Closing(s) /\ hand[s] = Nil /\ c # Nil
      /\ hand' = [hand EXCEPT ![s] = c]
      /\ surplus' = [surplus EXCEPT ![s].from = @ + 1]
      /\ UNCHANGED <<array, cap, cur, len, maxIdle, pass, at, swept, out, open>>
  BY DEF ReadNext
<1>2. /\ surplus[s] \in [of : Arrays, from : Nat \ {0}, to : Nat]
      /\ surplus[s].from \in Nat \ {0} /\ surplus[s].to \in Nat /\ surplus[s].of \in Arrays
  BY DEF SliceInv, TypeOK
<1>3. /\ surplus'[s].of = surplus[s].of /\ surplus'[s].to = surplus[s].to
      /\ surplus'[s].from = surplus[s].from + 1
      /\ hand'[s] = c /\ surplus'[s] \in [of : Arrays, from : Nat \ {0}, to : Nat]
  <2>1. surplus'[s] = [surplus[s] EXCEPT !.from = surplus[s].from + 1] /\ hand'[s] = c
    BY <1>1 DEF SliceInv, TypeOK
  <2> HIDE DEF c
  <2>2. surplus[s].from + 1 \in Nat \ {0}
    BY <1>2
  <2> QED
    BY <1>2, <2>1, <2>2
<1>4. surplus[s].from \in Cut(s) /\ Cut(s)' = Cut(s) \ {surplus[s].from}
  BY <1>1, <1>2, <1>3 DEF Cut, Closing
<1>5. Rest(s) = Rest(s)' \cup {c} /\ c \notin Rest(s)'
  BY <1>1, <1>3, <1>4 DEF Rest, SliceInv, Listed
<1>6. c \in Cell
  BY <1>5, <1>1 DEF SliceInv, Partition, Doomed, TypeOK, Cell
<1> HIDE DEF c
<1>7. Doomed(s)' = Doomed(s)
  BY <1>1, <1>3, <1>5 DEF Doomed
<1>8. \A t \in Setter : t # s => /\ surplus'[t] = surplus[t] /\ hand'[t] = hand[t]
  BY <1>1 DEF SliceInv, TypeOK
<1>9. \A t \in Setter : t # s => /\ Cut(t)' = Cut(t) /\ Rest(t)' = Rest(t)
                                 /\ Doomed(t)' = Doomed(t)
  BY <1>1, <1>8 DEF Cut, Rest, Doomed
<1>10. freeConn' = freeConn
  BY <1>1 DEF freeConn
<1>11. TypeOK'
  <2>1. surplus' \in [Setter -> [of : Arrays, from : Nat \ {0}, to : Nat]]
    BY <1>1, <1>3 DEF SliceInv, TypeOK
  <2> QED
    BY <1>1, <1>6, <2>1 DEF SliceInv, TypeOK
<1>12. Layout'
  <2>1. \A t \in Setter : Closing(t)' => /\ Closing(t) /\ surplus'[t].of = surplus[t].of
                                         /\ surplus'[t].to = surplus[t].to
                                         /\ surplus'[t].from >= surplus[t].from
    BY <1>1, <1>2, <1>3, <1>8 DEF Closing, SliceInv, TypeOK
  <2>2. \A t \in Setter : surplus[t].from \in Nat /\ surplus'[t].from \in Nat /\ maxIdle \in Nat
    BY <1>11 DEF SliceInv, TypeOK
  <2> QED
    BY <1>1, <2>1, <2>2 DEF SliceInv, Layout
<1>13. Listed'
  <2>1. \A i, j \in Cut(s)' : array'[surplus'[s].of][i] = array'[surplus'[s].of][j] => i = j
    BY <1>1, <1>3, <1>4 DEF SliceInv, Listed
  <2>2. hand'[s] \notin Rest(s)'
    BY <1>3, <1>5
  <2> QED
    BY <1>1, <1>8, <1>9, <2>1, <2>2 DEF SliceInv, Listed
<1>14. \A t \in Setter : Doomed(t)' = Doomed(t)
  BY <1>7, <1>9
<1>15. Partition'
  BY <1>1, <1>10, <1>14 DEF SliceInv, Partition, NoneLost
<1> QED
  BY <1>10, <1>11, <1>12, <1>13, <1>14, <1>15 DEF SliceInv

LEMMA CloseNextInv ==
  ASSUME OneSetter, SliceInv, NEW s \in Setter, CloseNext(s)
  PROVE  /\ SliceInv' /\ freeConn' = freeConn
         /\ hand[s] \in Doomed(s) /\ Doomed(s)' = Doomed(s) \ {hand[s]}
<1> USE DEF slice, setters, loop
<1>1. /\ hand[s] # Nil /\ open' = open \ {hand[s]} /\ hand' = [hand EXCEPT ![s] = Nil]
      /\ UNCHANGED <<array, cap, cur, len, maxIdle, surplus, pass, at, swept, out>>
  BY DEF CloseNext
<1>2. Setter = {s} /\ hand'[s] = Nil
  BY <1>1 DEF OneSetter, SliceInv, TypeOK
<1>3. freeConn' = freeConn /\ Cut(s)' = Cut(s) /\ Rest(s)' = Rest(s)
  BY <1>1 DEF freeConn, Cut, Rest
<1>4. Doomed(s)' = Doomed(s) \ {hand[s]} /\ hand[s] \in Doomed(s)
  BY <1>1, <1>2, <1>3 DEF Doomed, SliceInv, Listed
<1>5. Nil \notin Rest(s)
  BY SliceAssumption DEF SliceInv, Partition, Doomed, TypeOK
<1>6. TypeOK'
  BY <1>1 DEF SliceInv, TypeOK, Cell
<1>7. Layout'
  BY <1>1 DEF SliceInv, Layout, Closing
<1>8. Listed'
  BY <1>1, <1>2, <1>3, <1>5 DEF SliceInv, Listed
<1>9. Partition'
  BY <1>1, <1>2, <1>3, <1>4 DEF SliceInv, Partition, NoneLost
<1> QED
  BY <1>3, <1>4, <1>6, <1>7, <1>8, <1>9 DEF SliceInv

LEMMA CleanerCloseInv ==
  ASSUME SliceInv, NEW c \in Conn, CleanerClose(c)
  PROVE  SliceInv' /\ freeConn' = freeConn /\ \A s \in Setter : Doomed(s)' = Doomed(s)
<1> USE DEF slice, setters, loop
<1>1. /\ c \in swept /\ swept' = swept \ {c} /\ open' = open \ {c}
      /\ UNCHANGED <<array, cap, cur, len, maxIdle, surplus, hand, pass, at, out>>
  BY DEF CleanerClose
<1>2. freeConn' = freeConn /\ \A s \in Setter : /\ Cut(s)' = Cut(s) /\ Rest(s)' = Rest(s)
                                                /\ Doomed(s)' = Doomed(s)
  BY <1>1 DEF freeConn, Cut, Rest, Doomed
<1>3. TypeOK'
  BY <1>1 DEF SliceInv, TypeOK
<1>4. Layout'
  BY <1>1 DEF SliceInv, Layout, Closing
<1>5. Listed'
  BY <1>1, <1>2 DEF SliceInv, Listed
<1>6. Partition'
  BY <1>1, <1>2 DEF SliceInv, Partition, NoneLost
<1> QED
  BY <1>2, <1>3, <1>4, <1>5, <1>6 DEF SliceInv

(* The steps of the cleaner's loop that leave every connection in place.   *)
LoopStep == CleanerRun \/ Fresh \/ LoopEnds

LEMMA LoopInv ==
  ASSUME SliceInv, LoopStep \/ UNCHANGED vars
  PROVE  SliceInv' /\ freeConn' = freeConn /\ \A s \in Setter : Doomed(s)' = Doomed(s)
<1>1. UNCHANGED <<slice, maxIdle, setters, swept, out, open>>
  BY DEF LoopStep, CleanerRun, Fresh, LoopEnds, vars
<1>2. pass' \in 0 .. 2 /\ at' \in Nat \ {0}
  <2>1. pass \in 0 .. 2 /\ at \in Nat \ {0}
    BY DEF SliceInv, TypeOK
  <2> QED
    BY <2>1 DEF LoopStep, CleanerRun, Fresh, LoopEnds, vars, loop
<1> QED
  BY <1>1, <1>2, KeptInv

LEMMA StepInv ==
  ASSUME OneSetter, SliceInv, [Next]_vars
  PROVE  SliceInv'
<1>1. CASE CallerStep
  BY <1>1, DialInv, PutInv, TakeInv DEF CallerStep
<1>2. CASE CleanerStep
  BY <1>2, LoopInv, ExpiredInv, CleanerCloseInv DEF CleanerStep, LoopStep
<1>3. ASSUME NEW s \in Setter, SetterStep(s) PROVE SliceInv'
  BY <1>3, ReadNextInv, CloseNextInv, SetMaxIdleInv DEF SetterStep
<1>4. CASE UNCHANGED vars
  BY <1>4, LoopInv
<1> QED
  BY <1>1, <1>2, <1>3, <1>4 DEF Next

-------------------------------------------------------------------------------
(* The theorems.                                                           *)

(* Why nothing is lost or closed twice: with one setter the tail that it   *)
(* closes lies beyond the part of the array that db.freeConn can reach.    *)
THEOREM SliceInvHolds == OneSetter => (Spec => []SliceInv)
<1> SUFFICES ASSUME OneSetter PROVE Spec => []SliceInv
  OBVIOUS
<1>1. SliceInv /\ [Next]_vars => SliceInv'
  BY StepInv
<1> QED
  BY <1>1, InitInv, PTL DEF Spec

(* Every open connection is in one place: with a caller, idle, or about to *)
(* be closed by the goroutine that took it off the list (sql.go            *)
(* SetMaxIdleConns, connectionCleanerRunLocked, putConnDBLocked, conn).    *)
THEOREM OnePlaceHolds == OneSetter => (Spec => []OnePlace)
<1>1. SliceInv => OnePlace
  BY DEF SliceInv, Partition, Listed, OnePlace, NoneShared
<1> QED
  BY <1>1, SliceInvHolds, PTL

-------------------------------------------------------------------------------
(* db.freeConn is the set of IdleSet.                                      *)

(* Its length is the size of the set.                                      *)
LEMMA SliceSize == SliceInv => Cardinality(freeConn) = len
<1> SUFFICES ASSUME SliceInv PROVE Cardinality(freeConn) = len
  OBVIOUS
<1> DEFINE f == [i \in 1 .. len |-> array[cur][i]]
<1>1. len \in Nat
  BY DEF SliceInv, TypeOK
<1>2. f \in Bijection(1 .. len, freeConn)
  <2>1. f \in [1 .. len -> freeConn] /\ \A c \in freeConn : \E i \in 1 .. len : f[i] = c
    BY DEF freeConn
  <2>2. \A i, j \in 1 .. len : f[i] = f[j] => i = j
    BY DEF SliceInv, Listed
  <2> HIDE DEF f
  <2> QED
    BY <2>1, <2>2 DEF Bijection, Injection, Surjection, IsInjective
<1>3. IsFiniteSet(1 .. len) /\ Cardinality(1 .. len) = len
  BY <1>1, FS_Interval
<1> QED
  BY <1>2, <1>3, FS_Bijection DEF ExistsBijection

SetSized == Slice!Cardinality(freeConn) = len

LEMMA SetSize == SliceInv => SetSized
<1>1. Slice!Cardinality(freeConn) = Cardinality(freeConn)
  BY Zenon DEF Cardinality, Slice!Cardinality
<1> QED
  BY <1>1, SliceSize DEF SetSized

LEMMA StepIsSetStep ==
  ASSUME OneSetter, SliceInv, SliceInv', [Next]_vars, SetSized, SetSized'
  PROVE  [Slice!SetNext]_(Slice!setVars)
<1> USE DEF Slice!setVars, slice, setters, loop, SetSized
<1>1. ASSUME NEW c \in Conn, Dial(c) PROVE Slice!SetNext
  <2>1. Slice!Dial(c)
    BY <1>1, DialInv DEF Dial, Slice!Dial, Idle, LockFree
  <2> QED
    BY <2>1 DEF Slice!SetNext
<1>2. ASSUME NEW c \in Conn, Put(c) PROVE Slice!SetNext
  <2>1. /\ freeConn' = (IF HasRoom THEN freeConn \cup {c} ELSE freeConn)
        /\ \A s \in Setter : Doomed(s)' = Doomed(s)
    BY <1>2, PutInv
  <2>2. pass = 0 /\ pass' = 0 /\ swept' = swept /\ maxIdle' = maxIdle
    BY <1>2 DEF Put, LockFree
  <2>3. CASE HasRoom
    <3>1. Slice!PutIdle(c)
      BY <1>2, <2>1, <2>2, <2>3 DEF Put, Slice!PutIdle, Idle, HasRoom
    <3> QED
      BY <3>1 DEF Slice!SetNext
  <2>4. CASE ~HasRoom
    <3>1. Slice!PutClosed(c)
      BY <1>2, <2>1, <2>2, <2>4 DEF Put, Slice!PutClosed, Idle
    <3> QED
      BY <3>1 DEF Slice!SetNext
  <2> QED
    BY <2>3, <2>4
<1>3. ASSUME Take PROVE Slice!SetNext
  <2>1. /\ freeConn' = freeConn \ {array[cur][1]} /\ array[cur][1] \in freeConn
        /\ \A s \in Setter : Doomed(s)' = Doomed(s)
    BY <1>3, TakeInv
  <2>2. array[cur][1] \in Conn
    BY <2>1 DEF SliceInv, Partition, TypeOK
  <2>3. Slice!Take(array[cur][1])
    BY <1>3, <2>1 DEF Take, Slice!Take, Idle, LockFree
  <2> QED
    BY <2>2, <2>3 DEF Slice!SetNext
<1>4. ASSUME Expired PROVE UNCHANGED Slice!setVars
  <2>1. /\ freeConn' = freeConn \ {array[cur][at]} /\ array[cur][at] \in freeConn
        /\ \A s \in Setter : Doomed(s)' = Doomed(s)
    BY <1>4, ExpiredInv
  <2> QED
    BY <1>4, <2>1 DEF Expired, Idle
<1>5. ASSUME LoopStep PROVE [Slice!SetNext]_(Slice!setVars)
  <2>1. /\ freeConn' = freeConn /\ \A s \in Setter : Doomed(s)' = Doomed(s)
        /\ UNCHANGED <<maxIdle, out, open, swept>>
    BY <1>5, LoopInv DEF LoopStep, CleanerRun, Fresh, LoopEnds
  <2>2. CASE pass = 0
    BY <1>5, <2>1, <2>2 DEF LoopStep, CleanerRun, Fresh, LoopEnds, LockFree, Idle
  <2>3. CASE pass # 0 /\ pass' # 0
    BY <2>1, <2>3 DEF Idle
  <2>4. CASE pass # 0 /\ pass' = 0
    <3>1. freeConn \cap swept = {} /\ swept \in SUBSET Conn
      BY DEF SliceInv, Partition, TypeOK
    <3>2. Slice!Sweep(swept)
      BY <2>1, <2>4, <3>1 DEF Slice!Sweep, Idle
    <3> QED
      BY <3>1, <3>2 DEF Slice!SetNext
  <2> QED
    BY <2>2, <2>3, <2>4
<1>6. ASSUME NEW c \in Conn, CleanerClose(c) PROVE Slice!SetNext
  <2>1. Slice!CloseSwept(c)
    BY <1>6, CleanerCloseInv DEF CleanerClose, Slice!CloseSwept, Idle, LockFree
  <2> QED
    BY <2>1 DEF Slice!SetNext
<1>7. ASSUME NEW s \in Setter, ReadNext(s) PROVE UNCHANGED Slice!setVars
  BY <1>7, ReadNextInv DEF ReadNext, Idle
<1>8. ASSUME NEW s \in Setter, CloseNext(s) PROVE Slice!SetNext
  <2>1. /\ freeConn' = freeConn /\ hand[s] \in Doomed(s)
        /\ Doomed(s)' = Doomed(s) \ {hand[s]}
    BY <1>8, CloseNextInv
  <2>2. Setter = {s} /\ hand[s] \in Conn
    BY <2>1 DEF OneSetter, SliceInv, Partition, TypeOK
  <2>3. Slice!CloseSurplus(s, hand[s])
    BY <1>8, <2>1, <2>2 DEF CloseNext, Slice!CloseSurplus, Idle, LockFree
  <2> QED
    BY <2>2, <2>3 DEF Slice!SetNext
<1>9. ASSUME NEW s \in Setter, NEW n \in IdleLimits, SetMaxIdleConns(s, n)
      PROVE  Slice!SetNext
  <2>1. /\ Doomed(s) = {} /\ freeConn' \cap Doomed(s)' = {}
        /\ freeConn = freeConn' \cup Doomed(s)'
        /\ Doomed(s)' # {} => len > n
    BY <1>9, SetMaxIdleInv
  <2>2. Setter = {s} /\ Doomed(s)' \in SUBSET Conn
    BY <2>1 DEF OneSetter, SliceInv, Partition, TypeOK
  <2>3. len > n => len' = n
    BY <1>9 DEF SetMaxIdleConns
  <2>4. freeConn \ Doomed(s)' = freeConn' /\ Doomed(s)' \subseteq freeConn
    BY <2>1
  <2>5. /\ pass = 0 /\ pass' = 0 /\ maxIdle' = n
        /\ UNCHANGED <<swept, out, open>>
    BY <1>9 DEF SetMaxIdleConns, LockFree
  <2>6. /\ Idle = freeConn /\ Idle' = freeConn'
        /\ [t \in Setter |-> Doomed(t)][s] = {}
        /\ [t \in Setter |-> Doomed(t)]'
             = [[t \in Setter |-> Doomed(t)] EXCEPT ![s] = Doomed(s)']
    BY <2>1, <2>2, <2>5 DEF Idle
  <2>7. Slice!SetMaxIdle(s, Doomed(s)')
    BY <2>1, <2>3, <2>5, <2>4, <2>6, SliceAssumption DEF Slice!SetMaxIdle
  <2> QED
    BY <2>2, <2>7 DEF Slice!SetNext
<1>10. ASSUME UNCHANGED vars PROVE UNCHANGED Slice!setVars
  BY <1>10, LoopInv DEF vars, Idle
<1> QED
  BY <1>1, <1>2, <1>3, <1>4, <1>5, <1>6, <1>7, <1>8, <1>9, <1>10
  DEF Next, CallerStep, CleanerStep, SetterStep, LoopStep

(* What ConnPool takes for granted of its set of idle connections is what  *)
(* the slice does: SetMaxIdleConns and the cleaner take a part of it at    *)
(* once, and close that part whatever the callers do meanwhile.            *)
THEOREM SliceImplementsIdleSet == OneSetter => (Spec => ImplementsIdleSet)
<1> SUFFICES ASSUME OneSetter PROVE Spec => ImplementsIdleSet
  OBVIOUS
<1>1. Init => Slice!SetInit
  BY SliceAssumption DEF Init, Slice!SetInit, Idle, freeConn, Doomed, Rest, Cut
<1>2. SliceInv /\ SliceInv' /\ [Next]_vars /\ SetSized /\ SetSized'
      => [Slice!SetNext]_(Slice!setVars)
  BY StepIsSetStep
<1>3. Spec => []SliceInv
  BY SliceInvHolds
<1> QED
  BY <1>1, <1>2, <1>3, SetSize, PTL DEF Spec, ImplementsIdleSet, Slice!SetSpec

===============================================================================
