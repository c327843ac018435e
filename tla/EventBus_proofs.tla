--------------------------- MODULE EventBus_proofs ---------------------------
(***************************************************************************)
(* EventBus for any handlers, types, captured Subscriptions and depth.     *)
(* That a publish serves what is registered depends on the cache; that no  *)
(* handler runs inside itself depends on which of the nested dispatches    *)
(* are inside a handler: all but the innermost.                            *)
(***************************************************************************)
EXTENDS EventBus, Selection_proofs

(* Only the innermost dispatch may be between two handlers.                 *)
FrameInv ==
  \A i \in DOMAIN stack :
    /\ stack[i].running => stack[i].at <= Len(stack[i].snap)
    /\ i # Len(stack) => stack[i].running

(* A cached snapshot is what filtering the registry would give.             *)
CacheInv == \A t \in Types : cache[t] # None => cache[t] = Matching(t)

IInv == TypeOK /\ FrameInv /\ CacheInv /\ CellsMatchCalls

Frame == [type : Types, snap : Seq(Handlers), at : Nat \ {0}, running : BOOLEAN]

BusTypes ==
  /\ state \in {"Active", "Closed"} /\ entries \in Seq(Handlers)
  /\ cache \in [Types -> Seq(Handlers) \cup {None}]
  /\ depth = Len(stack) /\ depth <= MaxDepth
  /\ stack \in Seq(Frame)
  /\ state = "Closed" => entries = <<>> /\ stack = <<>>
  /\ taken \in SUBSET Handlers /\ broken \in BOOLEAN
  /\ subscribed \in SUBSET Handlers /\ published \in 0 .. MaxPublishes

(* CellsMatchCalls of any stack and set of empty cells.                     *)
Runs(s) == {i \in DOMAIN s : s[i].running}
Who(s, i) == s[i].snap[s[i].at]
Cells(s, empty) ==
  /\ empty = {Who(s, i) : i \in Runs(s)}
  /\ \A i, j \in Runs(s) : Who(s, i) = Who(s, j) => i = j
-----------------------------------------------------------------------------
LEMMA CellsAgree == CellsMatchCalls <=> Cells(stack, taken)
BY DEF CellsMatchCalls, Cells, Runs, Who

LEMMA TypesAgree == TypeOK <=> BusTypes
BY DEF TypeOK, BusTypes, Frame

(* The stack as its frames.                                                 *)
LEMMA StackPlaces ==
  ASSUME TypeOK
  PROVE  /\ stack \in Seq(Frame) /\ Len(stack) \in Nat /\ DOMAIN stack = 1 .. Len(stack)
         /\ \A i \in DOMAIN stack : stack[i] \in Frame
         /\ stack # <<>> => Len(stack) \in DOMAIN stack /\ Top = stack[Len(stack)]
<1>1. stack \in Seq(Frame)
  BY DEF TypeOK, Frame
<1> QED
  BY <1>1 DEF Top, Last

LEMMA ChangedTop ==
  ASSUME NEW s \in Seq(Frame), s # <<>>, NEW f \in Frame
  PROVE  LET t == [s EXCEPT ![Len(s)] = f] IN
         /\ t \in Seq(Frame) /\ Len(t) = Len(s) /\ DOMAIN t = DOMAIN s /\ t[Len(s)] = f
         /\ \A i \in DOMAIN s : i # Len(s) => t[i] = s[i]
OBVIOUS

LEMMA DroppedTop ==
  ASSUME NEW s \in Seq(Frame), s # <<>>
  PROVE  /\ Front(s) \in Seq(Frame) /\ Len(Front(s)) = Len(s) - 1
         /\ DOMAIN Front(s) = DOMAIN s \ {Len(s)}
         /\ \A i \in DOMAIN Front(s) : Front(s)[i] = s[i]
<1>1. Len(s) \in Nat /\ Len(s) # 0 /\ DOMAIN s = 1 .. Len(s)
  OBVIOUS
<1>2. Front(s) \in Seq(Frame) /\ Len(Front(s)) = Len(s) - 1
  BY <1>1 DEF Front
<1>3. DOMAIN Front(s) = 1 .. Len(s) - 1
  BY <1>2
<1>4. \A i \in 1 .. Len(s) - 1 : Front(s)[i] = s[i]
  BY <1>1 DEF Front
<1> QED
  BY <1>1, <1>2, <1>3, <1>4

(* The dispatches inside a handler, and the handlers, after a step on the   *)
(* innermost frame.                                                         *)
LEMMA CellsKept ==
  ASSUME NEW s, NEW t, NEW empty, Cells(s, empty),
         Runs(t) = Runs(s), \A i \in Runs(s) : t[i] = s[i]
  PROVE  Cells(t, empty)
<1>1. \A i \in Runs(s) : Who(t, i) = Who(s, i)
  BY DEF Who
<1> QED
  BY <1>1 DEF Cells

LEMMA CellsMore ==
  ASSUME NEW s, NEW t, NEW empty, NEW n, Cells(s, empty),
         n \notin Runs(s), Runs(t) = Runs(s) \cup {n}, \A i \in Runs(s) : t[i] = s[i],
         Who(t, n) \notin empty
  PROVE  Cells(t, empty \cup {Who(t, n)})
<1>1. \A i \in Runs(s) : Who(t, i) = Who(s, i) /\ Who(t, i) \in empty
  BY DEF Who, Cells
<1>2. empty \cup {Who(t, n)} = {Who(t, i) : i \in Runs(t)}
  BY <1>1 DEF Cells
<1>3. \A i, j \in Runs(t) : Who(t, i) = Who(t, j) => i = j
  BY <1>1 DEF Cells
<1> QED
  BY <1>2, <1>3 DEF Cells

LEMMA CellsFewer ==
  ASSUME NEW s, NEW t, NEW empty, NEW n, Cells(s, empty),
         n \in Runs(s), Runs(t) = Runs(s) \ {n}, \A i \in Runs(t) : t[i] = s[i]
  PROVE  Cells(t, empty \ {Who(s, n)})
<1>1. \A i \in Runs(t) : Who(t, i) = Who(s, i) /\ Who(s, i) # Who(s, n)
  BY DEF Who, Cells
<1>2. empty \ {Who(s, n)} = {Who(t, i) : i \in Runs(t)}
  BY <1>1 DEF Cells
<1>3. \A i, j \in Runs(t) : Who(t, i) = Who(t, j) => i = j
  BY <1>1 DEF Cells
<1> QED
  BY <1>2, <1>3 DEF Cells

(* Filtering the registry for a type.                                       *)
LEMMA RegistryTypes ==
  ASSUME TypeOK, NEW t \in Types, NEW gone
  PROVE  Matching(t) \in Seq(Handlers) /\ Without(gone) \in Seq(Handlers)
BY OnlyType DEF TypeOK, Matching, Without

LEMMA MatchingMore ==
  ASSUME TypeOK, NEW h \in Handlers, NEW t \in Types, TypeOf[h] # t,
         entries' = Append(entries, h)
  PROVE  Matching(t)' = Matching(t)
<1> DEFINE S == {g \in Handlers : TypeOf[g] = t}
<1>1. entries \in Seq(Handlers) /\ h \notin S
  BY DEF TypeOK
<1> HIDE DEF S
<1>2. Only(Append(entries, h), S) = Only(entries, S)
  BY <1>1, OnlyAppend
<1> QED
  BY <1>2 DEF Matching, S

LEMMA MatchingFewer ==
  ASSUME TypeOK, NEW gone, NEW t \in Types,
         \A h \in gone \cap Registered : TypeOf[h] # t,
         entries' = Without(gone)
  PROVE  Matching(t)' = Matching(t)
<1> DEFINE S == {g \in Handlers : TypeOf[g] = t}
           T == Handlers \ gone
<1>1. entries \in Seq(Handlers)
  BY DEF TypeOK
<1>2. Elements(entries) \subseteq Handlers /\ Elements(entries) = Registered
  BY <1>1 DEF Elements, Registered, ToSet
<1>3. Elements(entries) \cap (T \cap S) = Elements(entries) \cap S
  BY <1>2
<1> HIDE DEF S, T
<1>4. Only(Only(entries, T), S) = Only(entries, T \cap S)
  BY <1>1, OnlyOnly
<1>5. Only(entries, T \cap S) = Only(entries, S)
  BY <1>1, <1>3, OnlySame
<1> QED
  BY <1>4, <1>5 DEF Matching, Without, S, T
-----------------------------------------------------------------------------
LEMMA InitIInv == Init => IInv
<1> SUFFICES ASSUME Init PROVE IInv
  OBVIOUS
<1>1. BusTypes
  <2> USE DEF Init
  <2>1. cache \in [Types -> Seq(Handlers) \cup {None}] /\ entries \in Seq(Handlers)
    OBVIOUS
  <2>2. stack \in Seq(Frame) /\ depth = Len(stack) /\ depth <= MaxDepth
    BY DepthAssumption
  <2>3. published \in 0 .. MaxPublishes
    BY DepthAssumption
  <2> QED
    BY <2>1, <2>2, <2>3 DEF BusTypes
<1>2. FrameInv /\ CacheInv /\ CellsMatchCalls
  BY DEF Init, FrameInv, CacheInv, CellsMatchCalls
<1> QED
  BY <1>1, <1>2, TypesAgree DEF IInv

(* A step on the stack alone.                                               *)
Skipped == [Top EXCEPT !.at = @ + 1]
Entered == [Top EXCEPT !.running = TRUE]
Returned == [Top EXCEPT !.running = FALSE, !.at = @ + 1]

LEMMA TopFrames ==
  ASSUME TypeOK, stack # <<>>
  PROVE  /\ Top \in Frame
         /\ Skipped \in Frame /\ Skipped.running = Top.running
         /\ Entered \in Frame /\ Entered.running /\ Entered.at = Top.at
         /\ Entered.snap = Top.snap
         /\ Returned \in Frame /\ ~Returned.running
         /\ [stack EXCEPT ![Len(stack)].at = @ + 1] = [stack EXCEPT ![Len(stack)] = Skipped]
         /\ [stack EXCEPT ![Len(stack)].running = TRUE] = [stack EXCEPT ![Len(stack)] = Entered]
         /\ [stack EXCEPT ![Len(stack)].running = FALSE, ![Len(stack)].at = @ + 1]
              = [stack EXCEPT ![Len(stack)] = Returned]
<1>1. Top \in Frame /\ Top = stack[Len(stack)]
  BY StackPlaces
<1>2. Skipped \in Frame /\ Skipped.running = Top.running
  BY <1>1 DEF Frame, Skipped
<1>3. Entered \in Frame /\ Entered.running /\ Entered.at = Top.at /\ Entered.snap = Top.snap
  BY <1>1 DEF Frame, Entered
<1>4. Returned \in Frame /\ ~Returned.running
  <2> DEFINE out == [Top EXCEPT !.running = FALSE]
  <2>1. out \in Frame /\ ~out.running
    BY <1>1 DEF Frame
  <2>2. Returned = [out EXCEPT !.at = @ + 1]
    BY Zenon DEF Returned
  <2> HIDE DEF out
  <2>3. [out EXCEPT !.at = @ + 1] \in Frame /\ [out EXCEPT !.at = @ + 1].running = out.running
    BY <2>1 DEF Frame
  <2> QED
    BY <2>1, <2>2, <2>3
<1>5. [stack EXCEPT ![Len(stack)].at = @ + 1] = [stack EXCEPT ![Len(stack)] = Skipped]
  BY <1>1, Zenon DEF Skipped
<1>6. [stack EXCEPT ![Len(stack)].running = TRUE] = [stack EXCEPT ![Len(stack)] = Entered]
  BY <1>1, Zenon DEF Entered
<1>7. [stack EXCEPT ![Len(stack)].running = FALSE, ![Len(stack)].at = @ + 1]
        = [stack EXCEPT ![Len(stack)] = Returned]
  BY <1>1, Zenon DEF Returned
<1> QED
  BY <1>1, <1>2, <1>3, <1>4, <1>5, <1>6, <1>7

LEMMA TypeStep ==
  ASSUME TypeOK, [Next]_vars
  PROVE  TypeOK'
<1> USE DEF registry, BusTypes
<1>0. BusTypes
  BY TypesAgree
<1> SUFFICES BusTypes'
  BY DEF TypeOK, Frame
<1>1. ASSUME NEW h \in Handlers, Subscribe(h) PROVE BusTypes'
  BY <1>0, <1>1 DEF Subscribe, Uncached
<1>2. ASSUME NEW h \in Handlers, Unsubscribe(h) PROVE BusTypes'
  <2>1. entries' \in Seq(Handlers) /\ (entries = <<>> => entries' = <<>>)
    BY <1>0, <1>2, OnlyType, OnlyEmpty DEF Unsubscribe, Without
  <2>2. broken' \in BOOLEAN
    BY <1>2 DEF Unsubscribe, Breaks
  <2> QED
    BY <1>0, <1>2, <2>1, <2>2 DEF Unsubscribe, Uncached
<1>3. ASSUME NEW t \in Types, Publish(t) PROVE BusTypes'
  <2> DEFINE found == IF cache[t] = None THEN Matching(t) ELSE cache[t]
             frame == [type |-> t, snap |-> found, at |-> 1, running |-> FALSE]
  <2>1. found \in Seq(Handlers)
    BY <1>0, RegistryTypes
  <2>2. frame \in Frame
    BY <2>1 DEF Frame
  <2>3. stack' = Append(stack, frame) /\ cache' = [cache EXCEPT ![t] = found]
    BY <1>3 DEF Publish
  <2>4. /\ UNCHANGED <<state, entries, taken, broken, subscribed>> /\ state = "Active"
        /\ depth' = depth + 1 /\ depth < MaxDepth
        /\ published' = published + 1 /\ published < MaxPublishes
    BY <1>3 DEF Publish, DepthLeft
  <2> HIDE DEF found, frame
  <2>5. stack' \in Seq(Frame) /\ Len(stack') = Len(stack) + 1
    BY <1>0, <2>2, <2>3
  <2> QED
    BY <1>0, <2>1, <2>3, <2>4, <2>5, DepthAssumption
<1>4. CASE CallHandler
  <2>1. stack # <<>> /\ Top \in Frame /\ Top.at \in 1 .. Len(Top.snap)
    BY <1>4, TopFrames DEF CallHandler, Frame
  <2>2. Top.snap[Top.at] \in Handlers
    BY <2>1 DEF Frame
  <2>3. \/ stack' = [stack EXCEPT ![Len(stack)] = Skipped] /\ taken' = taken
        \/ stack' = [stack EXCEPT ![Len(stack)] = Entered]
           /\ taken' = taken \cup {Top.snap[Top.at]}
    BY <1>4, TopFrames DEF CallHandler
  <2>4. stack' \in Seq(Frame) /\ Len(stack') = Len(stack)
    <3>1. PICK frame \in Frame : stack' = [stack EXCEPT ![Len(stack)] = frame]
      BY <2>1, <2>3, TopFrames
    <3> QED
      BY <1>0, <2>1, <3>1, ChangedTop
  <2>5. UNCHANGED <<state, entries, cache, depth, broken, subscribed, published>>
    BY <1>4 DEF CallHandler
  <2> QED
    BY <1>0, <2>1, <2>2, <2>3, <2>4, <2>5
<1>5. CASE HandlerEnds
  <2>1. stack # <<>> /\ stack' = [stack EXCEPT ![Len(stack)] = Returned]
    BY <1>5, TopFrames DEF HandlerEnds, InHandler
  <2>2. stack' \in Seq(Frame) /\ Len(stack') = Len(stack)
    BY <1>0, <2>1, TopFrames, ChangedTop
  <2>3. UNCHANGED <<state, entries, cache, depth, broken, subscribed, published>> /\ taken' \subseteq taken
    BY <1>5 DEF HandlerEnds
  <2> QED
    BY <1>0, <2>1, <2>2, <2>3
<1>6. CASE DispatchEnds
  <2>1. stack # <<>> /\ stack' = Front(stack) /\ depth' = depth - 1
    BY <1>6 DEF DispatchEnds
  <2>2. stack' \in Seq(Frame) /\ Len(stack') = Len(stack) - 1 /\ state # "Closed"
    BY <1>0, <2>1, DroppedTop
  <2>3. \E gone, known : entries' = Without(gone) /\ cache' = Uncached(known)
    BY <1>6 DEF DispatchEnds
  <2>4. entries' \in Seq(Handlers) /\ cache' \in [Types -> Seq(Handlers) \cup {None}]
    BY <1>0, <2>3, OnlyType DEF Without, Uncached
  <2>5. UNCHANGED <<state, taken, broken, subscribed, published>>
    BY <1>6 DEF DispatchEnds
  <2> QED
    BY <1>0, <2>1, <2>2, <2>4, <2>5, DepthAssumption
<1>7. CASE Close
  <2>1. stack = <<>>
    <3>1. stack \in Seq(Frame) /\ Len(stack) = 0
      BY <1>0, <1>7 DEF Close, MayClose
    <3> QED
      BY <3>1
  <2>2. broken' \in BOOLEAN
    BY <1>7 DEF Close, Breaks
  <2>3. state' = "Closed" /\ entries' = <<>> /\ cache' = [t \in Types |-> None]
    BY <1>7 DEF Close
  <2> QED
    BY <1>0, <1>7, <2>1, <2>2, <2>3 DEF Close
<1>8. CASE UNCHANGED vars
  <2>1. UNCHANGED <<state, entries, cache, depth, stack, taken, broken, subscribed, published>>
    BY <1>8 DEF vars
  <2> QED
    BY <1>0, <2>1
<1> HIDE DEF BusTypes, registry
<1> QED
  BY <1>1, <1>2, <1>3, <1>4, <1>5, <1>6, <1>7, <1>8 DEF Next

(* What a step does to the stack: nothing, or it changes the innermost      *)
(* frame, or it puts one there or takes one away.                           *)
LEMMA StackSteps ==
  ASSUME TypeOK, [Next]_vars
  PROVE  \/ stack' = stack /\ taken' = taken
         \/ \E frame \in Frame :
              /\ ~frame.running /\ stack' = Append(stack, frame) /\ taken' = taken
              /\ stack = <<>> \/ InHandler
         \/ /\ stack # <<>> /\ ~Top.running
            /\ stack' = [stack EXCEPT ![Len(stack)] = Skipped] /\ taken' = taken
         \/ /\ stack # <<>> /\ ~Top.running /\ Top.at <= Len(Top.snap)
            /\ Top.snap[Top.at] \notin taken
            /\ stack' = [stack EXCEPT ![Len(stack)] = Entered]
            /\ taken' = taken \cup {Top.snap[Top.at]}
         \/ /\ InHandler
            /\ stack' = [stack EXCEPT ![Len(stack)] = Returned]
            /\ taken' = taken \ {Top.snap[Top.at]}
         \/ stack # <<>> /\ ~Top.running /\ stack' = Front(stack) /\ taken' = taken
<1>1. ASSUME NEW h \in Handlers, Subscribe(h) \/ Unsubscribe(h)
      PROVE  stack' = stack /\ taken' = taken
  BY <1>1 DEF Subscribe, Unsubscribe
<1>2. ASSUME NEW t \in Types, Publish(t)
      PROVE  \E frame \in Frame :
               /\ ~frame.running /\ stack' = Append(stack, frame) /\ taken' = taken
               /\ stack = <<>> \/ InHandler
  <2> DEFINE found == IF cache[t] = None THEN Matching(t) ELSE cache[t]
             frame == [type |-> t, snap |-> found, at |-> 1, running |-> FALSE]
  <2>1. found \in Seq(Handlers)
    BY RegistryTypes DEF TypeOK
  <2>2. frame \in Frame /\ ~frame.running
    BY <2>1 DEF Frame
  <2>3. stack' = Append(stack, frame) /\ taken' = taken /\ (stack = <<>> \/ InHandler)
    BY <1>2 DEF Publish, UserCode
  <2> QED
    BY <2>2, <2>3
<1>3. CASE CallHandler
  BY <1>3, TopFrames DEF CallHandler, Busy
<1>4. CASE HandlerEnds
  BY <1>4, TopFrames DEF HandlerEnds, InHandler
<1>5. CASE DispatchEnds
  BY <1>5 DEF DispatchEnds
<1>6. CASE Close \/ UNCHANGED vars
  BY <1>6 DEF Close, vars
<1> QED
  BY <1>1, <1>2, <1>3, <1>4, <1>5, <1>6 DEF Next

LEMMA StackStep ==
  ASSUME TypeOK, FrameInv, CellsMatchCalls, [Next]_vars
  PROVE  FrameInv' /\ CellsMatchCalls'
<1> DEFINE n == Len(stack)
<1>1. /\ stack \in Seq(Frame) /\ n \in Nat /\ DOMAIN stack = 1 .. n
      /\ stack # <<>> => n \in DOMAIN stack /\ Top = stack[n] /\ Top \in Frame
      /\ \A i \in DOMAIN stack : stack[i] \in Frame
  BY StackPlaces, TopFrames
<1>2. Cells(stack, taken)
  BY CellsAgree
<1>3. SUFFICES FrameInv' /\ Cells(stack', taken')
  BY DEF CellsMatchCalls, Cells, Runs, Who
<1>4. CASE stack' = stack /\ taken' = taken
  BY <1>2, <1>4 DEF FrameInv
<1>5. ASSUME NEW frame \in Frame, ~frame.running, stack' = Append(stack, frame),
             taken' = taken, stack = <<>> \/ InHandler
      PROVE  FrameInv' /\ Cells(stack', taken')
  <2>1. /\ Len(stack') = n + 1 /\ DOMAIN stack' = 1 .. n + 1 /\ stack'[n + 1] = frame
        /\ \A i \in DOMAIN stack : stack'[i] = stack[i]
    BY <1>1, <1>5
  <2>2. Runs(stack') = Runs(stack)
    BY <1>1, <1>5, <2>1 DEF Runs
  <2>3. FrameInv'
    BY <1>1, <1>5, <2>1 DEF FrameInv, InHandler
  <2> QED
    BY <1>2, <1>5, <2>1, <2>2, <2>3, CellsKept DEF Runs
<1>6. ASSUME stack # <<>>, NEW frame \in Frame, stack' = [stack EXCEPT ![n] = frame]
      PROVE  /\ Len(stack') = n /\ DOMAIN stack' = DOMAIN stack /\ stack'[n] = frame
             /\ \A i \in DOMAIN stack : i # n => stack'[i] = stack[i]
             /\ (frame.running => frame.at <= Len(frame.snap)) => FrameInv'
             /\ Runs(stack') = IF frame.running THEN Runs(stack) \cup {n} ELSE Runs(stack) \ {n}
  <2>1. /\ Len(stack') = n /\ DOMAIN stack' = DOMAIN stack /\ stack'[n] = frame
        /\ \A i \in DOMAIN stack : i # n => stack'[i] = stack[i]
    BY <1>1, <1>6, ChangedTop
  <2>2. (frame.running => frame.at <= Len(frame.snap)) => FrameInv'
    BY <2>1 DEF FrameInv
  <2>3. Runs(stack') = IF frame.running THEN Runs(stack) \cup {n} ELSE Runs(stack) \ {n}
    BY <1>1, <1>6, <2>1 DEF Runs
  <2> QED
    BY <2>1, <2>2, <2>3
<1>7. CASE /\ stack # <<>> /\ ~Top.running
           /\ stack' = [stack EXCEPT ![n] = Skipped] /\ taken' = taken
  <2>1. Skipped \in Frame /\ ~Skipped.running
    BY <1>7, TopFrames
  <2>2. n \notin Runs(stack)
    BY <1>1, <1>7 DEF Runs
  <2>3. FrameInv' /\ Runs(stack') = Runs(stack) /\ \A i \in Runs(stack) : stack'[i] = stack[i]
    BY <1>6, <1>7, <2>1, <2>2 DEF Runs
  <2> QED
    BY <1>2, <1>7, <2>3, CellsKept
<1>8. CASE /\ stack # <<>> /\ ~Top.running /\ Top.at <= Len(Top.snap)
           /\ Top.snap[Top.at] \notin taken
           /\ stack' = [stack EXCEPT ![n] = Entered]
           /\ taken' = taken \cup {Top.snap[Top.at]}
  <2>1. /\ Entered \in Frame /\ Entered.running /\ Entered.at = Top.at
        /\ Entered.snap = Top.snap
    BY <1>8, TopFrames
  <2>2. n \notin Runs(stack)
    BY <1>1, <1>8 DEF Runs
  <2>3. /\ FrameInv' /\ Runs(stack') = Runs(stack) \cup {n} /\ stack'[n] = Entered
        /\ \A i \in Runs(stack) : stack'[i] = stack[i]
    BY <1>6, <1>8, <2>1, <2>2 DEF Runs
  <2>4. Who(stack', n) = Top.snap[Top.at]
    BY <2>1, <2>3 DEF Who
  <2>5. Runs(stack') = Runs(stack) \cup {n} /\ Who(stack', n) \notin taken
    BY <1>8, <2>3, <2>4
  <2>6. Cells(stack', taken \cup {Who(stack', n)})
    <3> HIDE DEF n
    <3> QED
      BY <1>2, <2>2, <2>3, <2>5, CellsMore
  <2>7. taken \cup {Who(stack', n)} = taken'
    BY <1>8, <2>4
  <2> QED
    BY <2>3, <2>6, <2>7
<1>9. CASE /\ InHandler
           /\ stack' = [stack EXCEPT ![n] = Returned]
           /\ taken' = taken \ {Top.snap[Top.at]}
  <2>1. stack # <<>> /\ Returned \in Frame /\ ~Returned.running
    BY <1>9, TopFrames DEF InHandler
  <2>2. n \in Runs(stack) /\ Who(stack, n) = Top.snap[Top.at]
    BY <1>1, <1>9, <2>1 DEF Runs, Who, InHandler
  <2>3. /\ FrameInv' /\ Runs(stack') = Runs(stack) \ {n}
        /\ \A i \in Runs(stack') : stack'[i] = stack[i]
    BY <1>6, <1>9, <2>1, <2>2 DEF Runs
  <2>4. Cells(stack', taken \ {Who(stack, n)})
    <3> HIDE DEF n
    <3> QED
      BY <1>2, <2>2, <2>3, CellsFewer
  <2>5. taken \ {Who(stack, n)} = taken'
    BY <1>9, <2>2
  <2> QED
    BY <2>3, <2>4, <2>5
<1>10. CASE stack # <<>> /\ ~Top.running /\ stack' = Front(stack) /\ taken' = taken
  <2>1. /\ Len(stack') = n - 1 /\ DOMAIN stack' = DOMAIN stack \ {n}
        /\ \A i \in DOMAIN stack' : stack'[i] = stack[i]
    BY <1>1, <1>10, DroppedTop
  <2>2. FrameInv'
    BY <1>1, <2>1 DEF FrameInv
  <2>3. Runs(stack') = Runs(stack) /\ \A i \in Runs(stack) : stack'[i] = stack[i]
    BY <1>1, <1>10, <2>1 DEF Runs
  <2> QED
    BY <1>2, <1>10, <2>2, <2>3, CellsKept
<1> QED
  BY <1>4, <1>5, <1>7, <1>8, <1>9, <1>10, StackSteps

LEMMA CacheStep ==
  ASSUME TypeOK, CacheInv, [Next]_vars
  PROVE  CacheInv'
<1> USE DEF registry
<1>0. cache \in [Types -> Seq(Handlers) \cup {None}]
  BY DEF TypeOK
<1>1. ASSUME NEW h \in Handlers, Subscribe(h) PROVE CacheInv'
  <2>1. ASSUME NEW t \in Types, cache'[t] # None PROVE cache'[t] = Matching(t)'
    <3>1. TypeOf[h] # t /\ cache'[t] = cache[t]
      BY <1>1, <2>1 DEF Subscribe, Uncached
    <3>2. Matching(t)' = Matching(t)
      BY <1>1, <3>1, MatchingMore DEF Subscribe
    <3> QED
      BY <2>1, <3>1, <3>2 DEF CacheInv
  <2> QED
    BY <2>1 DEF CacheInv
<1>2. ASSUME NEW gone, entries' = Without(gone), cache' = Uncached(gone \cap Registered)
      PROVE  CacheInv'
  <2>1. ASSUME NEW t \in Types, cache'[t] # None PROVE cache'[t] = Matching(t)'
    <3>1. (\A h \in gone \cap Registered : TypeOf[h] # t) /\ cache'[t] = cache[t]
      BY <1>2, <2>1 DEF Uncached
    <3>2. Matching(t)' = Matching(t)
      BY <1>2, <3>1, MatchingFewer
    <3> QED
      BY <2>1, <3>1, <3>2 DEF CacheInv
  <2> QED
    BY <2>1 DEF CacheInv
<1>3. ASSUME NEW h \in Handlers, Unsubscribe(h) PROVE CacheInv'
  <2>1. {h} \cap Registered = {h}
    BY <1>3 DEF Unsubscribe
  <2> QED
    BY <1>2, <1>3, <2>1 DEF Unsubscribe
<1>4. ASSUME NEW t \in Types, Publish(t) PROVE CacheInv'
  <2>1. entries' = entries /\ cache' = [cache EXCEPT ![t] = Matching(t)]
    BY <1>4 DEF Publish, CacheInv
  <2>2. \A u \in Types : Matching(u)' = Matching(u)
    BY <2>1 DEF Matching
  <2> QED
    BY <1>0, <2>1, <2>2 DEF CacheInv
<1>5. CASE DispatchEnds
  BY <1>2, <1>5 DEF DispatchEnds
<1>6. CASE Close
  BY <1>6 DEF Close, CacheInv
<1>7. CASE CallHandler \/ HandlerEnds \/ UNCHANGED vars
  <2>1. entries' = entries /\ cache' = cache
    BY <1>7 DEF CallHandler, HandlerEnds, vars
  <2> QED
    BY <2>1 DEF CacheInv, Matching
<1> QED
  BY <1>1, <1>3, <1>4, <1>5, <1>6, <1>7 DEF Next

-----------------------------------------------------------------------------
(* The invariant holds in every behaviour.                                  *)
THEOREM Inductive == Spec => []IInv
<1>1. Init => IInv
  BY InitIInv
<1>2. IInv /\ [Next]_vars => IInv'
  BY TypeStep, StackStep, CacheStep DEF IInv
<1> QED
  BY <1>1, <1>2, PTL DEF Spec

(* Dispatches nest no deeper than the limit, and a closed bus has nothing   *)
(* registered and no dispatch under way.                                    *)
THEOREM TypeCorrect == Spec => []TypeOK
<1>1. IInv => TypeOK
  BY DEF IInv
<1> QED
  BY <1>1, Inductive, PTL

(* No handler runs inside itself and each that does not run is back in its  *)
(* cell, for every nesting of publishes and whether handlers panic or not.  *)
THEOREM Cell == Spec => []CellsMatchCalls
<1>1. IInv => CellsMatchCalls
  BY DEF IInv
<1> QED
  BY <1>1, Inductive, PTL

(* A publish serves exactly the registered handlers of its type, in their   *)
(* order, whatever was cached: the cached snapshot is never stale.          *)
THEOREM PublishServes == Spec => PublishServesRegistered
<1>1. IInv /\ [Next]_vars =>
        [Len(stack') > Len(stack) => Last(stack').snap = Matching(Last(stack').type)]_vars
  <2>1. SUFFICES ASSUME IInv, [Next]_vars, Len(stack') > Len(stack)
                 PROVE  Last(stack').snap = Matching(Last(stack').type)
    OBVIOUS
  <2>0. TypeOK /\ CacheInv
    BY <2>1 DEF IInv
  <2>2. stack \in Seq(Frame) /\ Len(stack) \in Nat
    BY <2>0, StackPlaces
  <2>3. ASSUME NEW t \in Types, Publish(t)
        PROVE  Last(stack').snap = Matching(Last(stack').type)
    <3> DEFINE frame == [type |-> t, snap |-> Matching(t), at |-> 1, running |-> FALSE]
    <3>0. (IF cache[t] = None THEN Matching(t) ELSE cache[t]) = Matching(t)
      BY <2>0 DEF CacheInv
    <3>1. stack' = Append(stack, frame)
      BY <2>3, <3>0 DEF Publish
    <3>2. Last(stack') = frame
      BY <2>2, <3>1 DEF Last
    <3> QED
      BY <3>2
  <2>4. CASE UNCHANGED stack
    BY <2>1, <2>2, <2>4
  <2>5. CASE CallHandler \/ HandlerEnds
    BY <2>1, <2>2, <2>5 DEF CallHandler, HandlerEnds, InHandler
  <2>6. CASE DispatchEnds
    <3>1. Len(stack') = Len(stack) - 1
      BY <2>2, <2>6, DroppedTop DEF DispatchEnds
    <3> QED
      BY <2>1, <2>2, <3>1
  <2> QED
    BY <2>1, <2>3, <2>4, <2>5, <2>6 DEF Next, Subscribe, Unsubscribe, Close, vars
<1> QED
  BY <1>1, Inductive, PTL DEF Spec, PublishServesRegistered
=============================================================================
