-------------------------- MODULE StateStackProofs --------------------------
(***************************************************************************)
(* For every listing that satisfies ListingAssumption, and for all budgets *)
(* that its caller gives, the numbers in m_state implement the notation:   *)
(* no frame is lost, a suspended label goes on where it was, and labels    *)
(* go to, call and return to each other as they say.                       *)
(*                                                                         *)
(* TwoFrames is not inductive: it has to be known that only a called label *)
(* runs above a frame, that it calls nothing itself, and that a frame      *)
(* below a suspended label is never a suspended one.  IInv says so of the  *)
(* two digits of m_state.                                                  *)
(***************************************************************************)
EXTENDS StateStack, TLAPS

\* The states that a call pushes.
Below == States \ (Interior \cup {0})

Owned(n) == OwnerOf[n] \in DOMAIN Jumps

Running ==
  /\ m_state \in Below \cup {0} /\ Owned(m_state)
  /\ m_state # 0 => at \in Called
  /\ pos \in Interior \cup {0} /\ last = pos
  /\ pos # 0 => OwnerOf[pos] = at

\* e is the lower digit of the stack, n its top.
Digits(e, n) ==
  /\ m_state = e * 512 + n /\ Owned(e) /\ Owned(n)
  /\ e # 0 => n \in Interior /\ OwnerOf[n] \in Called
  /\ last = IF n \in Interior THEN n ELSE 0

Between ==
  /\ pos = 0
  /\ \E e \in Below \cup {0} : \E n \in States : Digits(e, n)

IInv ==
  /\ at \in DOMAIN Jumps \cup {"idle"}
  /\ icount \in 0..MaxBudget
  /\ at # "idle" => Running
  /\ at = "idle" => Between

-----------------------------------------------------------------------------
(***************************************************************************)
(* Digits and frames.                                                      *)
(***************************************************************************)
LEMMA DigitsAre ==
  \A e, n \in 0..511 : /\ (e * 512 + n) % 512 = n
                       /\ (e * 512 + n) \div 512 = e
                       /\ (e % \h800000) * 512 + n = e * 512 + n
  OBVIOUS

LEMMA StatesAre ==
  /\ States \subseteq 0..511 /\ 0 \in States /\ Interior \subseteq States /\ 0 \notin Interior
  /\ Below \cup {0} \subseteq States /\ Owned(0)
  BY ListingAssumption DEF Below, Owned

LEMMA PushIs == \A n \in States : m_state \in States => Push(n) = m_state * 512 + n
  BY StatesAre, DigitsAre DEF Push

LEMMA LabelIsNotIdle == \A l \in DOMAIN Jumps : l # "idle"
  BY ListingAssumption

LEMMA CalledLeaves ==
  \A l \in Called : l \in DOMAIN Jumps /\ Jumps[l] = {} /\ Callees[l] = {} /\ l \notin Waits
  BY ListingAssumption DEF Called

\* The two labels of a call.
LEMMA CalleesAre ==
  ASSUME NEW l \in DOMAIN Jumps, NEW c \in Callees[l], NEW n \in EntryStates(c[2])
  PROVE  c[1] \in Called /\ n \in Below /\ Owned(n) /\ OwnerOf[n] = c[2]
<1>1. c[1] \in Called /\ c[2] \in Pushed
  <2>1. l \in DOMAIN Callees
    BY ListingAssumption
  <2>2. c[1] \in {d[1] : d \in Callees[l]} /\ c[2] \in {d[2] : d \in Callees[l]}
    OBVIOUS
  <2> QED BY <2>1, <2>2 DEF Called, Pushed
<1>2. n \in States \ Interior /\ OwnerOf[n] = c[2]
  BY DEF EntryStates
<1>3. c[2] # First /\ c[2] \in DOMAIN Jumps
  BY <1>1, ListingAssumption
<1>4. n # 0
  BY <1>2, <1>3, ListingAssumption
<1> QED BY <1>1, <1>2, <1>3, <1>4 DEF Below, Owned

LEMMA NextLinesAre ==
  ASSUME NEW n \in NextLines
  PROVE  n \in Interior /\ n \in States /\ n # 0 /\ OwnerOf[n] = at
  BY StatesAre DEF NextLines, Ahead

LEMMA BudgetSpent ==
  ASSUME icount \in 0..MaxBudget
  PROVE  Left \subseteq 0..MaxBudget /\ 0..icount \subseteq 0..MaxBudget
  BY ListingAssumption DEF Left

-----------------------------------------------------------------------------
(***************************************************************************)
(* The invariant, one lemma per action.                                    *)
(***************************************************************************)
LEMMA InitIInv == Init => IInv
<1> SUFFICES ASSUME Init PROVE IInv
  OBVIOUS
<1>1. 0 \in Below \cup {0} /\ 0 \in States /\ Owned(0) /\ 0 \notin Interior
  BY StatesAre
<1>2. Digits(0, 0)
  BY <1>1 DEF Init, Digits
<1>3. Between
  BY <1>1, <1>2 DEF Init, Between
<1> QED BY <1>3, ListingAssumption DEF Init, IInv

LEMMA ExecuteOneKeeps == IInv /\ ExecuteOne => IInv'
<1> SUFFICES ASSUME IInv, ExecuteOne PROVE IInv'
  OBVIOUS
<1>1. at = "idle" /\ Between
  BY DEF ExecuteOne, IInv
<1>2. PICK e \in Below \cup {0}, n \in States : Digits(e, n)
  BY <1>1 DEF Between
<1>3. e \in 0..511 /\ n \in 0..511 /\ m_state = e * 512 + n
  BY <1>2, StatesAre DEF Digits
<1>4. m_state % 512 = n /\ m_state \div 512 = e
  BY <1>3, DigitsAre, SMTT(30)
<1>5. /\ at' = OwnerOf[n] /\ pos' = IF n \in Interior THEN n ELSE 0
      /\ m_state' = e /\ icount' \in {icount} \cup 1..MaxBudget /\ last' = last
  BY <1>4 DEF ExecuteOne
<1>6. at' \in DOMAIN Jumps /\ at' # "idle"
  BY <1>2, <1>5, LabelIsNotIdle DEF Digits, Owned
<1>7. Running'
  <2>1. m_state' \in Below \cup {0} /\ Owned(m_state)'
    BY <1>2, <1>5 DEF Digits, Owned
  <2>2. m_state' # 0 => at' \in Called
    BY <1>2, <1>5 DEF Digits
  <2>3. pos' \in Interior \cup {0} /\ last' = pos' /\ (pos' # 0 => OwnerOf[pos'] = at')
    BY <1>2, <1>5 DEF Digits
  <2> QED BY <2>1, <2>2, <2>3 DEF Running
<1>8. icount' \in 0..MaxBudget
  BY <1>5, ListingAssumption DEF IInv
<1> QED BY <1>6, <1>7, <1>8 DEF IInv

LEMMA LineKeeps == IInv /\ Line => IInv'
<1> SUFFICES ASSUME IInv, Line PROVE IInv'
  OBVIOUS
<1>1. PICK n \in NextLines :
        /\ icount' \in Left /\ last' = n
        /\ IF icount' = 0 THEN at' = "idle" /\ pos' = 0 /\ m_state' = Push(n)
           ELSE pos' = n /\ UNCHANGED <<at, m_state>>
  BY DEF Line
<1>2. at # "idle" /\ at \in DOMAIN Jumps /\ Running
  BY DEF Line, IInv
<1>3. n \in Interior /\ n \in States /\ n # 0 /\ OwnerOf[n] = at
  BY NextLinesAre
<1>4. icount' \in 0..MaxBudget
  BY <1>1, BudgetSpent DEF IInv
<1>5. CASE icount' = 0
  <2>1. at' = "idle" /\ pos' = 0 /\ m_state' = Push(n) /\ last' = n
    BY <1>1, <1>5
  <2>2. m_state \in Below \cup {0} /\ Owned(m_state) /\ (m_state # 0 => at \in Called)
    BY <1>2 DEF Running
  <2>3. m_state' = m_state * 512 + n
    BY <1>3, <2>1, <2>2, PushIs, StatesAre
  <2>4. Owned(n)
    BY <1>2, <1>3 DEF Owned
  <2>5. \E e \in Below \cup {0} : \E k \in States : Digits(e, k)'
    <3>1. /\ m_state' = m_state * 512 + n /\ last' = n
          /\ (m_state # 0 => n \in Interior /\ OwnerOf[n] \in Called)
      BY <1>3, <2>1, <2>2, <2>3
    <3> QED BY <1>3, <2>2, <2>4, <3>1 DEF Digits, Owned
  <2>6. Between'
    BY <2>1, <2>5 DEF Between
  <2> QED BY <1>4, <2>1, <2>6 DEF IInv
<1>6. CASE icount' # 0
  <2>1. pos' = n /\ at' = at /\ m_state' = m_state /\ last' = n
    BY <1>1, <1>6
  <2>2. Running'
    BY <1>2, <1>3, <2>1 DEF Running, Owned
  <2> QED BY <1>2, <1>4, <2>1, <2>2 DEF IInv
<1> QED BY <1>5, <1>6

LEMMA JumpKeeps == IInv /\ Jump => IInv'
<1> SUFFICES ASSUME IInv, Jump PROVE IInv'
  OBVIOUS
<1>1. /\ at # "idle" /\ at' \in Jumps[at] /\ m_state' = m_state
      /\ pos' = 0 /\ last' = 0 /\ icount' \in 0..icount
  BY DEF Jump, Leave, AtEnd
<1>2. at \in DOMAIN Jumps /\ Running
  BY <1>1 DEF IInv
<1>3. m_state = 0
  BY <1>1, <1>2, CalledLeaves DEF Running
<1>4. at' \in DOMAIN Jumps /\ at' # "idle"
  BY <1>1, <1>2, ListingAssumption, LabelIsNotIdle
<1>5. Running'
  BY <1>1, <1>3, StatesAre DEF Running, Owned
<1>6. icount' \in 0..MaxBudget
  BY <1>1, BudgetSpent DEF IInv
<1> QED BY <1>4, <1>5, <1>6 DEF IInv

LEMMA ReturnKeeps == IInv /\ Return => IInv'
<1> SUFFICES ASSUME IInv, Return PROVE IInv'
  OBVIOUS
<1>1. /\ at # "idle" /\ at' = "idle" /\ m_state' = m_state
      /\ pos' = 0 /\ last' = 0 /\ icount' \in 0..icount
  BY DEF Return, Leave, AtEnd
<1>2. m_state \in Below \cup {0} /\ Owned(m_state)
  BY <1>1 DEF IInv, Running
<1>3. m_state \in States /\ m_state \notin Interior /\ m_state = 0 * 512 + m_state
  BY <1>2, StatesAre DEF Below
<1>4. m_state' = 0 * 512 + m_state /\ last' = 0 /\ Owned(0)
  BY <1>1, <1>3, StatesAre
<1>5. \E e \in Below \cup {0} : \E n \in States : Digits(e, n)'
  <2>1. /\ m_state' = 0 * 512 + m_state /\ Owned(0)' /\ Owned(m_state)
        /\ last' = IF m_state \in Interior THEN m_state ELSE 0
    BY <1>2, <1>3, <1>4 DEF Owned
  <2> QED BY <1>3, <2>1 DEF Digits, Owned
<1>6. Between'
  BY <1>1, <1>5 DEF Between
<1>7. icount' \in 0..MaxBudget
  BY <1>1, BudgetSpent DEF IInv
<1> QED BY <1>1, <1>6, <1>7 DEF IInv

LEMMA CallKeeps == IInv /\ Call => IInv'
<1> SUFFICES ASSUME IInv, Call PROVE IInv'
  OBVIOUS
<1> PICK c \in Callees[at] : \E n \in EntryStates(c[2]) : at' = c[1] /\ m_state' = Push(n)
  BY DEF Call
<1>1. PICK n \in EntryStates(c[2]) : at' = c[1] /\ m_state' = Push(n)
  OBVIOUS
<1>2. at # "idle" /\ pos' = 0 /\ last' = 0 /\ icount' \in 0..icount
  BY DEF Call, Leave, AtEnd
<1>3. at \in DOMAIN Jumps /\ Running
  BY <1>2 DEF IInv
<1>4. m_state = 0
  BY <1>1, <1>3, CalledLeaves DEF Running
<1>5. c[1] \in Called /\ n \in Below /\ Owned(n)
  BY <1>1, <1>3, CalleesAre
<1>6. m_state' = n
  <2>1. n \in States /\ n \in 0..511 /\ m_state \in States
    BY <1>4, <1>5, StatesAre DEF Below
  <2> QED BY <1>1, <1>4, <2>1, PushIs
<1>7. at' \in Called /\ at' \in DOMAIN Jumps /\ at' # "idle"
  BY <1>1, <1>5, CalledLeaves, LabelIsNotIdle
<1>8. Running'
  BY <1>2, <1>5, <1>6, <1>7 DEF Running, Owned
<1>9. icount' \in 0..MaxBudget
  BY <1>2, BudgetSpent DEF IInv
<1> QED BY <1>7, <1>8, <1>9 DEF IInv

LEMMA NextKeeps == IInv /\ [Next]_vars => IInv'
<1> SUFFICES ASSUME IInv, [Next]_vars PROVE IInv'
  OBVIOUS
<1>1. CASE UNCHANGED vars
  BY <1>1 DEF vars, IInv, Running, Between, Digits, Owned
<1> QED BY <1>1, ExecuteOneKeeps, LineKeeps, JumpKeeps, ReturnKeeps, CallKeeps DEF Next

LEMMA Inductive == Spec => []IInv
  BY InitIInv, NextKeeps, PTL DEF Spec
-----------------------------------------------------------------------------
\* Every variable keeps its type, for every listing and budget.
THEOREM TypeCorrect == Spec => []TypeOK
<1>1. IInv => TypeOK
  <2> SUFFICES ASSUME IInv PROVE TypeOK
    OBVIOUS
  <2>1. CASE at # "idle"
    <3>1. m_state \in 0..511
      BY <2>1, StatesAre DEF IInv, Running
    <3> QED BY <2>1, <3>1 DEF IInv, Running, TypeOK
  <2>2. CASE at = "idle"
    <3>1. PICK e \in Below \cup {0}, n \in States : Digits(e, n)
      BY <2>2 DEF IInv, Between
    <3>2. e \in 0..511 /\ n \in 0..511 /\ m_state = e * 512 + n
      BY <3>1, StatesAre DEF Digits
    <3>3. m_state \in Nat
      BY <3>2
    <3>4. last \in Interior \cup {0}
      BY <3>1 DEF Digits
    <3> QED BY <2>2, <3>3, <3>4 DEF IInv, Between, TypeOK
  <2> QED BY <2>1, <2>2
<1> QED BY <1>1, Inductive, PTL

\* m_state never loses a frame: two are the most that it holds, whatever the
\* budgets are and wherever a label is suspended.
THEOREM NoFrameIsLost == Spec => []TwoFrames
<1>1. IInv => TwoFrames
  <2> SUFFICES ASSUME IInv PROVE TwoFrames
    OBVIOUS
  <2>1. CASE at # "idle"
    <3>1. m_state \in 0..511
      BY <2>1, StatesAre DEF IInv, Running
    <3> QED BY <3>1 DEF TwoFrames
  <2>2. CASE at = "idle"
    <3>1. PICK e \in Below \cup {0}, n \in States : Digits(e, n)
      BY <2>2 DEF IInv, Between
    <3>2. e \in 0..511 /\ n \in 0..511 /\ m_state = e * 512 + n
      BY <3>1, StatesAre DEF Digits
    <3> QED BY <3>2 DEF TwoFrames
  <2> QED BY <2>1, <2>2
<1> QED BY <1>1, Inductive, PTL

\* A suspended label goes on behind the "@" line it executed last: no line is
\* left out or executed twice, for any budgets.
THEOREM LinesInOrder == Spec => []ResumesInPlace
<1>1. IInv => ResumesInPlace
  <2> SUFFICES ASSUME IInv PROVE ResumesInPlace
    OBVIOUS
  <2>1. CASE at # "idle"
    BY <2>1 DEF IInv, Running, ResumesInPlace
  <2>2. CASE at = "idle"
    <3>1. PICK e \in Below \cup {0}, n \in States : Digits(e, n)
      BY <2>2 DEF IInv, Between
    <3>2. m_state % 512 = n
      <4>1. e \in 0..511 /\ n \in 0..511 /\ m_state = e * 512 + n
        BY <3>1, StatesAre DEF Digits
      <4> QED BY <4>1, DigitsAre, SMTT(30)
    <3> QED BY <2>2, <3>1, <3>2 DEF Digits, ResumesInPlace, Suspended
  <2> QED BY <2>1, <2>2
<1> QED BY <1>1, Inductive, PTL
-----------------------------------------------------------------------------
(***************************************************************************)
(* The refinement of CallStack.                                            *)
(***************************************************************************)
LEMMA FramesAre ==
  Frames(0) = <<>> /\ \A n \in 1..511 : Frames(n) = <<OwnerOf[n]>>
<1>1. Frames(0) = <<>>
  BY DEF Frames, Depth
<1>2. ASSUME NEW n \in 1..511 PROVE Frames(n) = <<OwnerOf[n]>>
  <2>1. Depth(n) = 1
    BY DEF Depth, Shift
  <2>2. (n \div Shift[1]) % 512 = n
    BY DEF Shift
  <2>3. Frames(n) = [k \in 1..1 |-> OwnerOf[(n \div Shift[k]) % 512]]
    BY <2>1 DEF Frames
  <2> QED BY <2>2, <2>3
<1> QED BY <1>1, <1>2

\* What the notation sees while a label runs.
LEMMA MapRunning == at # "idle" => NotationAt = at /\ NotationStack = Frames(m_state)
  BY DEF NotationAt, NotationStack, Inside, Suspended

\* What it sees between two calls of execute_one().
LEMMA MapBetween ==
  ASSUME IInv, at = "idle", NEW e \in Below \cup {0}, NEW n \in States, Digits(e, n)
  PROVE  IF n \in Interior /\ OwnerOf[n] \notin Waits
         THEN NotationAt = OwnerOf[n] /\ NotationStack = Frames(e)
         ELSE e = 0 /\ NotationAt = "idle" /\ NotationStack = Frames(n)
<1>1. e \in 0..511 /\ n \in 0..511 /\ m_state = e * 512 + n
  BY StatesAre DEF Digits
<1>2. m_state % 512 = n /\ m_state \div 512 = e
  BY <1>1, DigitsAre, SMTT(30)
<1>3. CASE n \in Interior /\ OwnerOf[n] \notin Waits
  BY <1>2, <1>3 DEF NotationAt, NotationStack, Inside, Suspended
<1>4. CASE ~(n \in Interior /\ OwnerOf[n] \notin Waits)
  <2>1. e = 0
    BY <1>4, CalledLeaves DEF Digits
  <2>2. m_state = n
    BY <1>1, <2>1
  <2> QED BY <1>2, <1>4, <2>1, <2>2 DEF NotationAt, NotationStack, Inside, Suspended
<1> QED BY <1>3, <1>4

LEMMA ExecuteOneRefines == IInv /\ ExecuteOne => [Notation!Next]_(Notation!vars)
<1> SUFFICES ASSUME IInv, ExecuteOne PROVE [Notation!Next]_(Notation!vars)
  OBVIOUS
<1>1. at = "idle"
  BY DEF ExecuteOne
<1>2. PICK e \in Below \cup {0}, n \in States : Digits(e, n)
  BY <1>1 DEF IInv, Between
<1>3. e \in 0..511 /\ n \in 0..511 /\ m_state = e * 512 + n
  BY <1>2, StatesAre DEF Digits
<1>4. m_state % 512 = n /\ m_state \div 512 = e
  BY <1>3, DigitsAre, SMTT(30)
<1>5. at' = OwnerOf[n] /\ m_state' = e /\ at' # "idle"
  <2>1. at' = OwnerOf[n] /\ m_state' = e
    BY <1>4 DEF ExecuteOne
  <2>2. OwnerOf[n] # "idle"
    BY <1>2, LabelIsNotIdle DEF Digits, Owned
  <2> QED BY <2>1, <2>2
<1>6. NotationAt' = OwnerOf[n] /\ NotationStack' = Frames(e)
  BY <1>5 DEF NotationAt, NotationStack, Inside, Suspended, Frames, Depth
<1>7. CASE n \in Interior /\ OwnerOf[n] \notin Waits
  BY <1>1, <1>2, <1>6, <1>7, MapBetween DEF Notation!vars
<1>8. CASE ~(n \in Interior /\ OwnerOf[n] \notin Waits)
  <2>1. e = 0 /\ NotationAt = "idle" /\ NotationStack = Frames(n)
    BY <1>1, <1>2, <1>8, MapBetween
  <2>2. CASE n = 0
    <3>1. NotationStack = <<>> /\ NotationStack' = <<>> /\ NotationAt' = First
      BY <1>6, <2>1, <2>2, FramesAre, ListingAssumption
    <3> QED BY <2>1, <3>1 DEF Notation!Next, Notation!Enter
  <2>3. CASE n # 0
    <3>1. n \in 1..511
      BY <1>3, <2>3
    <3>2. NotationStack = <<OwnerOf[n]>> /\ NotationStack' = <<>>
      BY <1>6, <2>1, <3>1, FramesAre
    <3>3. NotationStack # <<>> /\ Head(NotationStack) = OwnerOf[n] /\ Tail(NotationStack) = <<>>
      BY <3>2
    <3> QED BY <1>6, <2>1, <3>2, <3>3 DEF Notation!Next, Notation!Enter
  <2> QED BY <2>2, <2>3
<1> QED BY <1>7, <1>8

LEMMA LineRefines == IInv /\ Line => [Notation!Next]_(Notation!vars)
<1> SUFFICES ASSUME IInv, Line PROVE [Notation!Next]_(Notation!vars)
  OBVIOUS
<1>1. PICK n \in NextLines :
        IF icount' = 0 THEN at' = "idle" /\ m_state' = Push(n)
        ELSE UNCHANGED <<at, m_state>>
  BY DEF Line
<1>2. at # "idle" /\ at \in DOMAIN Jumps /\ Running
  BY DEF Line, IInv
<1>3. NotationAt = at /\ NotationStack = Frames(m_state)
  BY <1>2, MapRunning
<1>4. n \in Interior /\ n \in States /\ n # 0 /\ OwnerOf[n] = at /\ n \in 1..511
  <2>1. n \in Interior /\ n \in States /\ n # 0 /\ OwnerOf[n] = at
    BY NextLinesAre
  <2>2. n \in 0..511
    BY <2>1, StatesAre
  <2> QED BY <2>1, <2>2
<1>5. CASE icount' # 0
  BY <1>1, <1>2, <1>3, <1>5
     DEF NotationAt, NotationStack, Inside, Suspended, Frames, Depth, Notation!vars
<1>6. CASE icount' = 0
  <2>1. at' = "idle" /\ m_state' = Push(n)
    BY <1>1, <1>6
  <2>2. m_state \in States /\ m_state \in 0..511
    BY <1>2, StatesAre DEF Running
  <2>3. m_state' = m_state * 512 + n
    BY <1>4, <2>1, <2>2, PushIs
  <2>4. m_state' % 512 = n /\ m_state' \div 512 = m_state
    BY <1>4, <2>2, <2>3, DigitsAre, SMTT(30)
  <2>5. CASE at \notin Waits
    <3>1. Inside'
      BY <1>4, <2>1, <2>4, <2>5 DEF Inside, Suspended
    <3>2. NotationAt' = at /\ NotationStack' = Frames(m_state)
      BY <1>4, <2>4, <3>1 DEF NotationAt, NotationStack, Frames, Depth
    <3> QED BY <1>3, <3>2 DEF Notation!vars
  <2>6. CASE at \in Waits
    <3>1. m_state = 0
      BY <1>2, <2>6, CalledLeaves DEF Running
    <3>2. m_state' = n
      BY <1>4, <2>3, <3>1
    <3>3. ~Inside'
      BY <1>4, <2>4, <2>6 DEF Inside
    <3>4. NotationAt' = "idle" /\ NotationStack' = Frames(n)
      BY <2>1, <3>2, <3>3 DEF NotationAt, NotationStack, Frames, Depth
    <3>5. NotationStack = <<>> /\ NotationStack' = <<at>>
      BY <1>3, <1>4, <3>1, <3>4, FramesAre
    <3>6. NotationStack' = <<NotationAt>> \o NotationStack
      BY <1>3, <3>5
    <3> QED BY <1>3, <2>6, <3>4, <3>6 DEF Notation!Next, Notation!Wait
  <2> QED BY <2>5, <2>6
<1> QED BY <1>5, <1>6

LEMMA JumpRefines == IInv /\ Jump => Notation!Next
<1> SUFFICES ASSUME IInv, Jump PROVE Notation!Next
  OBVIOUS
<1>1. at # "idle" /\ at' \in Jumps[at] /\ m_state' = m_state
  BY DEF Jump, Leave, AtEnd
<1>2. at' # "idle"
  BY <1>1, ListingAssumption, LabelIsNotIdle DEF IInv
<1>3. NotationAt = at /\ NotationStack = Frames(m_state)
  BY <1>1, MapRunning
<1>4. NotationAt' = at' /\ NotationStack' = Frames(m_state)
  BY <1>1, <1>2 DEF NotationAt, NotationStack, Inside, Suspended, Frames, Depth
<1> QED BY <1>1, <1>3, <1>4 DEF Notation!Next, Notation!Jump

LEMMA CallRefines == IInv /\ Call => Notation!Next
<1> SUFFICES ASSUME IInv, Call PROVE Notation!Next
  OBVIOUS
<1> PICK c \in Callees[at] : \E n \in EntryStates(c[2]) : at' = c[1] /\ m_state' = Push(n)
  BY DEF Call
<1>1. PICK n \in EntryStates(c[2]) : at' = c[1] /\ m_state' = Push(n)
  OBVIOUS
<1>2. at # "idle" /\ at \in DOMAIN Jumps /\ Running
  BY DEF Call, Leave, AtEnd, IInv
<1>3. m_state = 0
  BY <1>2, CalledLeaves DEF Running
<1>4. c[1] \in Called /\ n \in Below /\ OwnerOf[n] = c[2]
  BY <1>2, CalleesAre
<1>5. n \in States /\ n \in 1..511 /\ m_state \in States
  BY <1>3, <1>4, StatesAre DEF Below
<1>6. m_state' = n
  BY <1>1, <1>3, <1>5, PushIs
<1>7. at' # "idle"
  BY <1>1, <1>4, CalledLeaves, LabelIsNotIdle
<1>8. NotationAt = at /\ NotationStack = <<>>
  BY <1>2, <1>3, MapRunning, FramesAre
<1>9. NotationAt' = at' /\ NotationStack' = Frames(n)
  BY <1>6, <1>7 DEF NotationAt, NotationStack, Inside, Suspended, Frames, Depth
<1>10. NotationStack' = <<c[2]>> \o NotationStack
  <2>1. NotationStack' = <<OwnerOf[n]>>
    BY <1>5, <1>9, FramesAre
  <2>2. \A v : <<v>> \o <<>> = <<v>>
    OBVIOUS
  <2>3. <<c[2]>> \o NotationStack = <<c[2]>>
    BY <1>8, <2>2
  <2> QED BY <1>4, <2>1, <2>3
<1> QED BY <1>1, <1>2, <1>8, <1>9, <1>10 DEF Notation!Next, Notation!Call

LEMMA ReturnRefines == IInv /\ Return => Notation!Next
<1> SUFFICES ASSUME IInv, Return PROVE Notation!Next
  OBVIOUS
<1>1. at # "idle" /\ at \in Ends /\ at' = "idle" /\ m_state' = m_state
  BY DEF Return, Leave, AtEnd
<1>2. m_state \in Below \cup {0}
  BY <1>1 DEF IInv, Running
<1>3. m_state \in 0..511 /\ m_state \notin Interior
  BY <1>2, StatesAre DEF Below
<1>4. m_state % 512 = m_state
  BY <1>3
<1>5. NotationAt = at /\ NotationStack = Frames(m_state)
  BY <1>1, MapRunning
<1>6. ~Inside'
  BY <1>1, <1>3, <1>4 DEF Inside, Suspended
<1>7. NotationAt' = "idle" /\ NotationStack' = Frames(m_state)
  BY <1>1, <1>6 DEF NotationAt, NotationStack, Frames, Depth
<1> QED BY <1>1, <1>5, <1>7 DEF Notation!Next, Notation!Return

\* The numbered states, the packed stack and the suspensions of the generated
\* code implement labels, calls and returns as the listings use them.
THEOREM NumbersImplementNotation == Spec => ImplementsNotation
<1>1. Init => Notation!Init
  BY FramesAre, StatesAre, DigitsAre, SMTT(30)
     DEF Init, Notation!Init, NotationAt, NotationStack, Inside, Suspended
<1>2. IInv /\ [Next]_vars => [Notation!Next]_(Notation!vars)
  <2> SUFFICES ASSUME IInv, [Next]_vars PROVE [Notation!Next]_(Notation!vars)
    OBVIOUS
  <2>1. CASE UNCHANGED vars
    BY <2>1 DEF vars, Notation!vars, NotationAt, NotationStack, Inside, Suspended, Frames, Depth
  <2> QED BY <2>1, ExecuteOneRefines, LineRefines, JumpRefines, CallRefines, ReturnRefines
          DEF Next
<1> QED BY <1>1, <1>2, Inductive, PTL DEF Spec, ImplementsNotation, Notation!Spec
=============================================================================
