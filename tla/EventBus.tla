------------------------------- MODULE EventBus -------------------------------
(***************************************************************************)
(* The typed event bus of bus/: synchronous, single-threaded, but handlers *)
(* publish, subscribe and unsubscribe while they run, so that dispatches   *)
(* nest.  A publish calls the handlers of a snapshot, taken out of their   *)
(* cells one by one and put back afterwards, whether they panic or not.    *)
(*                                                                         *)
(* A closure may own Subscriptions, which unsubscribe when it is dropped.  *)
(*                                                                         *)
(* An operator right above another one and named after it is a wrong       *)
(* variant of it, kept to show which property would notice.                *)
(***************************************************************************)
EXTENDS Naturals, Sequences, SequencesExt, Selection

CONSTANTS
  Handlers, Types,
  TypeOf,        (* the event type of each handler                          *)
  Owns,          (* the handlers whose Subscriptions a closure captured     *)
  MaxDepth,      (* MAX_DISPATCH_DEPTH                                      *)
  MaxPublishes,  (* bound: publishes explored                               *)
  None

ASSUME HandlerAssumption == TypeOf \in [Handlers -> Types]
(* Bound: a captured Subscription is not of a closure that captures others. *)
ASSUME OwnershipAssumption ==
  /\ Owns \in [Handlers -> SUBSET Handlers]
  /\ \A h \in Handlers : \A g \in Owns[h] : Owns[g] = {}
ASSUME DepthAssumption == MaxDepth \in Nat \ {0} /\ MaxPublishes \in Nat

VARIABLES
  state,         (* Registry.state                                          *)
  entries,       (* .entries, in the order of registration                  *)
  cache,         (* .snapshot_cache                                         *)
  depth,         (* .dispatch_depth                                         *)
  stack,         (* the dispatches under way, innermost last                *)
  taken,         (* handlers whose cell is empty                            *)
  broken,        (* the RefCell of the registry was borrowed twice: a panic *)
  subscribed, published   (* handlers ever registered; publishes so far     *)

registry == <<state, entries, cache, depth>>
vars == <<registry, stack, taken, broken, subscribed, published>>

Init ==
  /\ state = "Active" /\ entries = <<>> /\ cache = [t \in Types |-> None]
  /\ depth = 0 /\ stack = <<>> /\ taken = {} /\ broken = FALSE
  /\ subscribed = {} /\ published = 0

Top == Last(stack)
Registered == ToSet(entries)

(* Whoever uses the bus: the owner, or the handler that runs innermost.     *)
InHandler == stack # <<>> /\ Top.running
UserCode == ~broken /\ (stack = <<>> \/ InHandler)

(* A dispatch under way keeps the closures of its snapshot alive.           *)
Kept(frames) == UNION {ToSet(frames[i].snap) : i \in DOMAIN frames}

Without(gone) == Only(entries, Handlers \ gone)

StillCached(gone) == cache
Uncached(gone) ==
  [t \in Types |-> IF \E h \in gone : TypeOf[h] = t THEN None ELSE cache[t]]

(* Closures dropped inside the registry's borrow drop their Subscriptions   *)
(* there too, and each borrows the registry again.                          *)
Breaks(gone) == \E h \in gone : Owns[h] # {}

-----------------------------------------------------------------------------
Subscribe(h) ==
  /\ UserCode /\ state = "Active"
  /\ h \notin subscribed /\ Owns[h] \subseteq subscribed
  /\ subscribed' = subscribed \cup {h}
  /\ entries' = Append(entries, h) /\ cache' = Uncached({h})
  /\ UNCHANGED <<state, depth, stack, taken, broken, published>>

(* The Subscription is with its subscriber, or with the closure running.    *)
HandleAtHand(h) ==
  \/ \A o \in Handlers : h \notin Owns[o]
  \/ InHandler /\ h \in Owns[Top.snap[Top.at]]

Unsubscribe(h) ==
  /\ UserCode /\ h \in Registered /\ HandleAtHand(h)
  /\ entries' = Without({h}) /\ cache' = Uncached({h})
  /\ broken' = Breaks({h} \ Kept(stack))
  /\ UNCHANGED <<state, depth, stack, taken, subscribed, published>>

Matching(t) == Only(entries, {h \in Handlers : TypeOf[h] = t})

DepthLeft == depth < MaxDepth

Publish(t) ==
  /\ UserCode /\ published < MaxPublishes /\ published' = published + 1
  /\ state = "Active" /\ DepthLeft
  /\ LET snap == IF cache[t] = None THEN Matching(t) ELSE cache[t] IN
       /\ cache' = [cache EXCEPT ![t] = snap]
       /\ stack' = Append(stack, [type |-> t, snap |-> snap, at |-> 1, running |-> FALSE])
  /\ depth' = depth + 1
  /\ UNCHANGED <<state, entries, taken, broken, subscribed>>

(* The next handler; one that already runs further out is skipped.          *)
BusyNever(h) == FALSE
Busy(h) == h \in taken

CallHandler ==
  /\ stack # <<>> /\ ~broken /\ ~Top.running /\ Top.at <= Len(Top.snap)
  /\ LET h == Top.snap[Top.at] IN
     IF Busy(h)
     THEN /\ stack' = [stack EXCEPT ![Len(stack)].at = @ + 1]
          /\ UNCHANGED taken
     ELSE /\ stack' = [stack EXCEPT ![Len(stack)].running = TRUE]
          /\ taken' = taken \cup {h}
  /\ UNCHANGED <<registry, broken, subscribed, published>>

(* The handler is over, with or without a panic.                            *)
HandlerEnds ==
  /\ InHandler /\ ~broken
  /\ stack' = [stack EXCEPT ![Len(stack)].running = FALSE, ![Len(stack)].at = @ + 1]
  /\ taken' = taken \ {Top.snap[Top.at]}
  /\ UNCHANGED <<registry, broken, subscribed, published>>

(* The dispatch returns and gives up its snapshot, outside the borrow.      *)
DispatchEnds ==
  /\ stack # <<>> /\ ~broken /\ ~Top.running /\ Top.at > Len(Top.snap)
  /\ stack' = Front(stack) /\ depth' = depth - 1
  /\ LET dead == ToSet(Top.snap) \ (Registered \cup Kept(Front(stack)))
         gone == UNION {Owns[h] : h \in dead} IN
       entries' = Without(gone) /\ cache' = Uncached(gone \cap Registered)
  /\ UNCHANGED <<state, taken, broken, subscribed, published>>

(* close; a dispatch under way makes it fail with WouldBlock.               *)
MayCloseAlways == TRUE
MayClose == depth = 0

Close ==
  /\ UserCode /\ MayClose /\ state = "Active"
  /\ state' = "Closed" /\ entries' = <<>> /\ cache' = [t \in Types |-> None]
  /\ broken' = Breaks(Registered \ Kept(stack))
  /\ UNCHANGED <<depth, stack, taken, subscribed, published>>

Next ==
  \/ \E h \in Handlers : Subscribe(h) \/ Unsubscribe(h)
  \/ \E t \in Types : Publish(t)
  \/ CallHandler \/ HandlerEnds \/ DispatchEnds \/ Close

Spec == Init /\ [][Next]_vars
-----------------------------------------------------------------------------
(* Properties.                                                             *)

(* Types.  Dispatches nest no deeper than the limit, and a closed bus has   *)
(* nothing registered and no dispatch that still calls.                     *)
TypeOK ==
  /\ state \in {"Active", "Closed"} /\ entries \in Seq(Handlers)
  /\ cache \in [Types -> Seq(Handlers) \cup {None}]
  /\ depth = Len(stack) /\ depth <= MaxDepth
  /\ stack \in Seq([type : Types, snap : Seq(Handlers), at : Nat \ {0},
                    running : BOOLEAN])
  /\ state = "Closed" => entries = <<>> /\ stack = <<>>
  /\ taken \in SUBSET Handlers /\ broken \in BOOLEAN
  /\ subscribed \in SUBSET Handlers /\ published \in 0 .. MaxPublishes

(* A publish serves exactly the handlers of its type that are registered    *)
(* when it starts, in their order, whatever was cached and however their    *)
(* predecessors were unregistered.                                          *)
PublishServesRegistered ==
  [][Len(stack') > Len(stack) => Last(stack').snap = Matching(Last(stack').type)]_vars

(* No handler runs inside itself, and every handler that does not run is    *)
(* back in its cell, however the dispatches nest.                           *)
CellsMatchCalls ==
  LET run == {i \in DOMAIN stack : stack[i].running}
      who(i) == stack[i].snap[stack[i].at] IN
  /\ taken = {who(i) : i \in run}
  /\ \A i, j \in run : who(i) = who(j) => i = j

=============================================================================
