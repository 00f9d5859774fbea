------------------------------- MODULE Pinctrl --------------------------------
(* Pin interrupts of drivers/gpio/apple-pinctrl.                             *)
(*                                                                           *)
(* All pins of a group share a parent interrupt line.  The parent's handler  *)
(* reads the group's pending word once and for each bit of it runs the pin's *)
(* handler and then clears the bit.  Requests and frees come from drivers on *)
(* other CPUs; a pin's register belongs to the one driver that uses the pin. *)
(* Pins and the parent interrupt are external.                               *)
EXTENDS Naturals, FiniteSets

CONSTANTS
  Pins,          \* pins of one group
  LevelPins      \* those with a level trigger, the others trigger on an edge

VARIABLES
  pinMode,       \* "off" or "irq": the mode field of each pin's register
  handlers,      \* irq_handlers: pins with a handler
  status,        \* the group's pending word
  level,         \* level pins held active
  parentOn,      \* the parent line is enabled at the interrupt controller
  pending,       \* the handler's copy of the pending word
  gpc, pinNow,   \* where the parent's handler is, and at which pin
  rpc,             \* where each pin's driver is
  edge,          \* history: edges no handler has started for
  missed         \* history: edges that came while the pin's handler ran

pinVars == <<pinMode, handlers, status, level, parentOn, pending, gpc, pinNow, rpc, edge,
             missed>>

PinInit ==
  /\ pinMode = [p \in Pins |-> "off"] /\ handlers = {} /\ status = {} /\ level = {}
  /\ parentOn = FALSE /\ pending = {} /\ gpc = "idle" /\ pinNow = "none"
  /\ rpc = [p \in Pins |-> "idle"] /\ edge = {} /\ missed = {}

(* Mutant: the pin is live before its handler can be found. *)
RequestModeFirst(p) ==
  /\ rpc[p] = "idle" /\ p \notin handlers
  /\ pinMode' = [pinMode EXCEPT ![p] = "irq"] /\ rpc' = [rpc EXCEPT ![p] = "mode"]
  /\ UNCHANGED <<handlers, status, level, parentOn, pending, gpc, pinNow, edge, missed>>

(* request_irq: the handler first, then the pin's mode, then the parent. *)
RequestHandler(p) ==
  /\ rpc[p] = "idle" /\ p \notin handlers
  /\ handlers' = handlers \cup {p} /\ rpc' = [rpc EXCEPT ![p] = "mode"]
  /\ UNCHANGED <<pinMode, status, level, parentOn, pending, gpc, pinNow, edge, missed>>

RequestMode(p) ==
  /\ rpc[p] = "mode"
  /\ pinMode' = [pinMode EXCEPT ![p] = "irq"] /\ rpc' = [rpc EXCEPT ![p] = "parent"]
  /\ UNCHANGED <<handlers, status, level, parentOn, pending, gpc, pinNow, edge, missed>>

(* The parent's enable, which other pins may have done before, or the undo   *)
(* in the reverse order when it fails.                                       *)
RequestParent(p) ==
  /\ rpc[p] = "parent"
  /\ parentOn' = TRUE /\ rpc' = [rpc EXCEPT ![p] = "idle"]
  /\ UNCHANGED <<pinMode, handlers, status, level, pending, gpc, pinNow, edge, missed>>

RequestFails(p) ==
  /\ rpc[p] = "parent"
  /\ pinMode' = [pinMode EXCEPT ![p] = "off"] /\ handlers' = handlers \ {p}
  /\ level' = level \ {p} /\ edge' = edge \ {p} /\ missed' = missed \ {p}
  /\ rpc' = [rpc EXCEPT ![p] = "idle"]
  /\ UNCHANGED <<status, parentOn, pending, gpc, pinNow>>

(* free_irq: the handler, then the mode; what is pending is dropped. *)
FreeHandler(p) ==
  /\ rpc[p] = "idle" /\ p \in handlers
  /\ handlers' = handlers \ {p} /\ rpc' = [rpc EXCEPT ![p] = "freeing"]
  /\ edge' = edge \ {p} /\ missed' = missed \ {p}
  /\ UNCHANGED <<pinMode, status, level, parentOn, pending, gpc, pinNow>>

FreeMode(p) ==
  /\ rpc[p] = "freeing"
  /\ pinMode' = [pinMode EXCEPT ![p] = "off"] /\ level' = level \ {p}
  /\ rpc' = [rpc EXCEPT ![p] = "idle"]
  /\ UNCHANGED <<handlers, status, parentOn, pending, gpc, pinNow, edge, missed>>

(* External: an edge or an active level sets the pending bit. *)
PinTriggers(p) ==
  /\ pinMode[p] = "irq"
  /\ status' = status \cup {p}
  /\ level' = IF p \in LevelPins THEN level \cup {p} ELSE level
  /\ IF gpc = "ack" /\ pinNow = p
     THEN missed' = missed \cup {p} /\ UNCHANGED edge
     ELSE edge' = edge \cup ({p} \cap handlers) /\ UNCHANGED missed
  /\ UNCHANGED <<pinMode, handlers, parentOn, pending, gpc, pinNow, rpc>>

------------------------------------------------------------------------------
(* dispatch_pending_irqs *)
ReadPending ==
  /\ gpc = "idle" /\ parentOn /\ status # {}
  /\ pending' = status /\ gpc' = "pins"
  /\ UNCHANGED <<pinMode, handlers, status, level, parentOn, pinNow, rpc, edge, missed>>

(* The pin's handler, if it has one, sees all that came before it starts. *)
RunPinHandler(p) ==
  /\ gpc = "pins" /\ p \in pending
  /\ pinNow' = p /\ gpc' = "ack"
  /\ IF p \in handlers
     THEN edge' = edge \ {p} /\ missed' = missed \ {p} /\ level' \in {level, level \ {p}}
     ELSE UNCHANGED <<edge, missed, level>>
  /\ UNCHANGED <<pinMode, handlers, status, parentOn, pending, rpc>>

(* Mutant: the whole word is cleared after the first handler. *)
AckWord ==
  /\ gpc = "ack"
  /\ status' = level /\ pending' = {}
  /\ gpc' = "idle" /\ pinNow' = "none"
  /\ UNCHANGED <<pinMode, handlers, level, parentOn, rpc, edge, missed>>

AckPin ==
  /\ gpc = "ack"
  /\ status' = IF pinNow \in level THEN status ELSE status \ {pinNow}
  /\ pending' = pending \ {pinNow}
  /\ gpc' = (IF pending = {pinNow} THEN "idle" ELSE "pins") /\ pinNow' = "none"
  /\ UNCHANGED <<pinMode, handlers, level, parentOn, rpc, edge, missed>>

PinNext ==
  \/ \E p \in Pins :
       \/ RequestHandler(p) \/ RequestMode(p) \/ RequestParent(p) \/ RequestFails(p)
       \/ FreeHandler(p) \/ FreeMode(p) \/ PinTriggers(p) \/ RunPinHandler(p)
  \/ ReadPending \/ AckPin

PinSpec == PinInit /\ [][PinNext]_pinVars

------------------------------------------------------------------------------
(* An edge stays pending until its handler starts: it may come while other   *)
(* pins of the group are served, between the read of the word and its own    *)
(* turn, or before the parent is enabled.  An edge that comes while its own  *)
(* handler runs is not covered: the bit is cleared after the handler.        *)
NoEdgeLost == edge \subseteq status

(* A live pin has a handler to find, until its driver frees it: no trigger   *)
(* of it is cleared without one being run.                                   *)
LivePinHasHandler ==
  \A p \in Pins : pinMode[p] = "irq" => p \in handlers \/ rpc[p] = "freeing"
=============================================================================
