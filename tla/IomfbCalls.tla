------------------------------ MODULE IomfbCalls ------------------------------
(* Remote calls between the kernel and the display coprocessor over shared     *)
(* memory, drivers/display/dcp/src/iomfb.rs: a call waits for its              *)
(* acknowledgement by context and serves callbacks meanwhile, which may call   *)
(* back in turn; packets are stacked in the shared memory, counted here in     *)
(* blocks of PACKET_ALIGNMENT.                                                 *)
EXTENDS Naturals, Sequences, SequencesExt, FiniteSets

CONSTANTS
  Operations,     \* top-level operations
  Tags,           \* callbacks the coprocessor makes in the callback context
  MaxIds,         \* bound: calls and callbacks
  MaxTimeouts     \* bound: calls that time out

(* A completed swap is reported in the asynchronous context only.             *)
ASSUME IomfbAssumption ==
  /\ Operations \subseteq {"start", "powerOn", "swap"} /\ "D589" \notin Tags
  /\ {MaxIds, MaxTimeouts} \subseteq Nat

VARIABLES
  stack,          \* frames of the kernel's thread, innermost last
  callbackEnds,   \* callback_ends
  script,         \* calls the top-level operation has still to make
  swap,           \* the swap_id that swap_start returned last
  lastSwap,       \* last_completed_swap
  ids,            \* calls and callbacks so far
  abandoned,      \* calls and callbacks left by an error
  toDcp, fromDcp, \* RTKit messages
  shmem,          \* who wrote each block in use
  torn,           \* a read found another packet
  dcp,            \* the coprocessor's stack of calls at work and callbacks it waits for
  asyncOut,       \* its asynchronous callback is not yet acknowledged
  queuedSwaps, doneSwaps \* swaps it accepted, and those it completed

memVars == <<shmem, torn>>
fwVars == <<dcp, asyncOut, queuedSwaps, doneSwaps>>
swapVars == <<script, swap, lastSwap>>
iomfbVars == <<stack, callbackEnds, swapVars, ids, abandoned, toDcp, fromDcp, memVars, fwVars>>

ChannelArea(ctx) ==
  CASE ctx = "command" -> "tx" [] ctx = "callback" -> "callback" [] OTHER -> "async"
TxArea(ctx) == "tx"

(* Mutant: a nested call starts where its callback does. *)
NestedAtOffset(ends) ==
  IF ends # <<>> /\ Last(ends).ctx = "callback" THEN <<"callback", Last(ends).off>> ELSE <<"command", 0>>

(* nested_command_context, as call applies it to the innermost callback.      *)
CommandPlace(ends) ==
  IF ends # <<>> /\ Last(ends).ctx = "callback" THEN <<"callback", Last(ends).end>> ELSE <<"command", 0>>

Blocks(area, off, len) == {<<area, b>> : b \in off .. (off + len - 1)}
Written(blocks, what) == [c \in DOMAIN shmem \cup blocks |-> IF c \in blocks THEN what ELSE shmem[c]]
Intact(blocks, what) == \A c \in blocks : c \in DOMAIN shmem /\ shmem[c] = what

Length(name) == IF name = "submit" THEN 2 ELSE 1

IomfbInit ==
  /\ stack = <<>> /\ callbackEnds = <<>> /\ script = <<>> /\ swap = 0 /\ lastSwap = 0 /\ ids = 0
  /\ abandoned = {} /\ toDcp = <<>> /\ fromDcp = <<>> /\ shmem = <<>> /\ torn = FALSE
  /\ dcp = <<>> /\ asyncOut = FALSE /\ queuedSwaps = {} /\ doneSwaps = {}

(* The calls an operation makes, in order: start, power_on and a present's    *)
(* swap_start, swap_submit and wait_swap_complete; and those whose result it  *)
(* looks at.                                                                  *)
Script(op) ==
  CASE op = "start" -> <<"colour", "open">>
    [] op = "powerOn" -> <<"display", "power">>
    [] op = "swap" -> <<"begin", "submit", "wait">>
Checked == {"power", "begin", "submit"}

Begin(op) ==
  /\ stack = <<>> /\ script = <<>> /\ ids + Len(Script(op)) <= MaxIds
  /\ script' = Script(op)
  /\ UNCHANGED <<stack, callbackEnds, swap, lastSwap, ids, abandoned, toDcp, fromDcp, memVars, fwVars>>

(* call: write the packet and send it, from the top level or a callback.      *)
PushCall(name) ==
  LET place == CommandPlace(callbackEnds)
      frame == [kind |-> "call", id |-> ids + 1, name |-> name, ctx |-> place[1], off |-> place[2], len |-> Length(name)]
  IN  /\ ids < MaxIds /\ ids' = ids + 1
      /\ stack' = Append(stack, frame)
      /\ shmem' = Written(Blocks(TxArea(place[1]), place[2], Length(name)), <<"request", ids + 1>>)
      /\ toDcp' = Append(toDcp, [type |-> "call", ctx |-> place[1], off |-> place[2], len |-> Length(name),
                                 id |-> ids + 1, name |-> name, swap |-> swap])
      /\ UNCHANGED <<callbackEnds, swapVars, abandoned, fromDcp, torn, fwVars>>

CallNext == stack = <<>> /\ script # <<>> /\ Head(script) # "wait" /\ PushCall(Head(script))

(* wait_swap_complete: the loop is entered, and left once the swap is the     *)
(* last one completed, whenever its completion came.                          *)
WaitSwap ==
  /\ stack = <<>> /\ script # <<>> /\ Head(script) = "wait"
  /\ stack' = <<[kind |-> "wait", id |-> swap]>>
  /\ UNCHANGED <<callbackEnds, swapVars, ids, abandoned, toDcp, fromDcp, memVars, fwVars>>

SwapSeen ==
  /\ stack # <<>> /\ Last(stack).kind = "wait" /\ lastSwap = swap
  /\ stack' = <<>> /\ script' = <<>>
  /\ UNCHANGED <<callbackEnds, swap, lastSwap, ids, abandoned, toDcp, fromDcp, memVars, fwVars>>

(* How many calls a callback's handler makes, which handlers fail, and what   *)
(* one leaves behind when it or one of its calls does: "?" in the handlers of *)
(* D120 and D206 and the short reply area of D003 return past the pop of      *)
(* callback_ends, the handler of D100 and a callback without one do not.      *)
Nested(tag) == CASE tag = "D120" -> 2 [] tag \in {"D100", "D206"} -> 1 [] OTHER -> 0
Failing == {"unknown", "shortD003"}
LeavesEnd(tag) == tag \in {"D120", "D206", "shortD003"}

(* The kernel looks for messages in a call, in the wait for a swap and, by    *)
(* poll_nonblocking, between operations.                                      *)
Waiting == stack # <<>> /\ (Last(stack).kind = "call" \/ (Last(stack).kind = "wait" /\ lastSwap # swap))
Listening == Waiting \/ (stack = <<>> /\ script = <<>>)
Message == Head(fromDcp)

(* handle_callback: its end is noted and its output area cleared first.       *)
Handle(m) ==
  /\ stack' = Append(stack, [kind |-> "callback", id |-> m.id, tag |-> m.tag, ctx |-> m.ctx, off |-> m.off,
                             todo |-> Nested(m.tag), swap |-> m.swap])
  /\ callbackEnds' = Append(callbackEnds, [ctx |-> m.ctx, off |-> m.off, end |-> m.off + 1])
  /\ shmem' = Written(Blocks(ChannelArea(m.ctx), m.off, 1), <<"output", m.id>>)

(* Mutant: while a swap is awaited, callbacks are not looked at. *)
WaitSkipsCallbacks ==
  /\ Listening /\ fromDcp # <<>> /\ Message.type = "callback" /\ fromDcp' = Tail(fromDcp)
  /\ IF stack # <<>> /\ Last(stack).kind = "wait" THEN UNCHANGED <<stack, callbackEnds, shmem>> ELSE Handle(Message)
  /\ UNCHANGED <<swapVars, ids, abandoned, toDcp, torn, fwVars>>

(* Mutant: a callback that comes during a nested call is dropped. *)
NestedSkipsCallbacks ==
  /\ Listening /\ fromDcp # <<>> /\ Message.type = "callback" /\ fromDcp' = Tail(fromDcp)
  /\ IF Len(stack) > 1 THEN UNCHANGED <<stack, callbackEnds, shmem>> ELSE Handle(Message)
  /\ UNCHANGED <<swapVars, ids, abandoned, toDcp, torn, fwVars>>

TakeCallback ==
  /\ Listening /\ fromDcp # <<>> /\ Message.type = "callback" /\ fromDcp' = Tail(fromDcp)
  /\ Handle(Message)
  /\ UNCHANGED <<swapVars, ids, abandoned, toDcp, torn, fwVars>>

CallFromCallback ==
  stack # <<>> /\ Last(stack).kind = "callback" /\ Last(stack).todo > 0 /\ PushCall("nested")

(* Mutant: the callback's end stays when the handler is done. *)
FinishWithoutPop ==
  /\ stack # <<>> /\ Last(stack).kind = "callback" /\ Last(stack).todo = 0 /\ Last(stack).tag \notin Failing
  /\ stack' = Front(stack) /\ UNCHANGED callbackEnds
  /\ lastSwap' = IF Last(stack).tag = "D589" THEN Last(stack).swap ELSE lastSwap
  /\ toDcp' = Append(toDcp, [type |-> "ack", ctx |-> Last(stack).ctx])
  /\ UNCHANGED <<script, swap, ids, abandoned, fromDcp, memVars, fwVars>>

FinishCallback ==
  /\ stack # <<>> /\ Last(stack).kind = "callback" /\ Last(stack).todo = 0 /\ Last(stack).tag \notin Failing
  /\ stack' = Front(stack) /\ callbackEnds' = Front(callbackEnds)
  /\ lastSwap' = IF Last(stack).tag = "D589" THEN Last(stack).swap ELSE lastSwap
  /\ toDcp' = Append(toDcp, [type |-> "ack", ctx |-> Last(stack).ctx])
  /\ UNCHANGED <<script, swap, ids, abandoned, fromDcp, memVars, fwVars>>

(* An acknowledgement of the awaited context ends the call; the reply is read *)
(* from the context's channel, at the packet's own place.  An operation ends  *)
(* at a refusal, and swap_start returns the swap's number: of a reply that is *)
(* not there yet, the zero write_packet filled it with.                       *)
Awaited == stack # <<>> /\ Last(stack).kind = "call" /\ Message.ctx = Last(stack).ctx
RepliedWith(f, how) == Intact(Blocks(ChannelArea(f.ctx), f.off, f.len), <<how, f.id>>)

TakeAck ==
  /\ fromDcp # <<>> /\ Message.type = "ack" /\ Awaited /\ fromDcp' = Tail(fromDcp)
  /\ LET f == Last(stack)
     IN  /\ torn' = (torn \/ ~(RepliedWith(f, "reply") \/ RepliedWith(f, "refused")))
         /\ IF Len(stack) = 1
            THEN /\ stack' = <<>>
                 /\ script' = IF RepliedWith(f, "refused") THEN <<>> ELSE Tail(script)
                 /\ swap' = IF f.name # "begin" \/ RepliedWith(f, "refused") THEN swap
                            ELSE IF RepliedWith(f, "reply") THEN f.id ELSE 0
            ELSE /\ stack' = [Front(stack) EXCEPT ![Len(stack) - 1].todo = @ - 1]
                 /\ UNCHANGED <<script, swap>>
  /\ UNCHANGED <<callbackEnds, lastSwap, ids, abandoned, toDcp, shmem, fwVars>>

(* Any other one, late or of another context, is passed over.                 *)
DropAck ==
  /\ Listening /\ fromDcp # <<>> /\ Message.type = "ack" /\ ~Awaited /\ fromDcp' = Tail(fromDcp)
  /\ UNCHANGED <<stack, callbackEnds, swapVars, ids, abandoned, toDcp, memVars, fwVars>>

(* An error leaves every frame: a reply or swap that does not come in time,   *)
(* or a callback that fails.                                                  *)
HandledFrames == {i \in DOMAIN stack : stack[i].kind = "callback"}
Unwind ==
  /\ stack' = <<>> /\ script' = <<>>
  /\ callbackEnds' =
       LET kept == SetToSortSeq({i \in HandledFrames : LeavesEnd(stack[i].tag)}, <)
       IN  SubSeq(callbackEnds, 1, Len(callbackEnds) - Cardinality(HandledFrames))
             \o [k \in DOMAIN kept |-> [ctx |-> stack[kept[k]].ctx, off |-> stack[kept[k]].off, end |-> stack[kept[k]].off + 1]]
  /\ abandoned' = abandoned \cup {stack[i].id : i \in DOMAIN stack}
  /\ UNCHANGED <<swap, lastSwap, ids, toDcp, fromDcp, memVars, fwVars>>

TimesOut == Waiting /\ Cardinality(abandoned) < MaxTimeouts /\ Unwind

FailingCallback ==
  /\ stack # <<>> /\ Last(stack).kind = "callback" /\ Last(stack).tag \in Failing /\ Unwind

------------------------------------------------------------------------------
(* External: the coprocessor takes messages in order.  A call it runs may     *)
(* need callbacks, which it makes one at a time; it keeps its packets in the  *)
(* callback channel stacked like its calls.                                   *)
InChannel == {i \in DOMAIN dcp : dcp[i].ctx = "callback"}
Top == IF InChannel = {} THEN 0 ELSE LET i == CHOOSE k \in InChannel : \A j \in InChannel : j <= k IN dcp[i].off + dcp[i].len

DcpTakes ==
  /\ toDcp # <<>> /\ toDcp' = Tail(toDcp)
  /\ LET m == Head(toDcp)
     IN  \/ /\ m.type = "call"
            /\ dcp' = Append(dcp, [kind |-> "run", id |-> m.id, ctx |-> m.ctx, off |-> m.off, len |-> m.len,
                                   name |-> m.name, swap |-> m.swap])
            /\ UNCHANGED <<torn, asyncOut>>
         \/ /\ m.type = "ack" /\ m.ctx = "async" /\ asyncOut' = FALSE /\ UNCHANGED <<dcp, torn>>
         \/ /\ m.type = "ack" /\ m.ctx = "callback" /\ dcp # <<>> /\ Last(dcp).kind = "wait"
            /\ torn' = (torn \/ ~Intact(Blocks("callback", Last(dcp).off, 1), <<"output", Last(dcp).id>>))
            /\ dcp' = Front(dcp) /\ UNCHANGED asyncOut
  /\ UNCHANGED <<stack, callbackEnds, swapVars, ids, abandoned, fromDcp, shmem, queuedSwaps, doneSwaps>>

DcpRuns == dcp # <<>> /\ Last(dcp).kind = "run"

DcpCallsBack(tag) ==
  /\ DcpRuns /\ ids < MaxIds /\ ids' = ids + 1
  /\ dcp' = Append(dcp, [kind |-> "wait", id |-> ids + 1, ctx |-> "callback", off |-> Top, len |-> 1, name |-> tag, swap |-> 0])
  /\ shmem' = Written(Blocks("callback", Top, 1), <<"callback", ids + 1>>)
  /\ fromDcp' = Append(fromDcp, [type |-> "callback", ctx |-> "callback", off |-> Top, id |-> ids + 1, tag |-> tag, swap |-> 0])
  /\ UNCHANGED <<stack, callbackEnds, swapVars, abandoned, toDcp, torn, asyncOut, queuedSwaps, doneSwaps>>

DcpReplies(how) ==
  /\ DcpRuns
  /\ LET r == Last(dcp)
     IN  /\ how = "refused" => r.name \in Checked
         /\ shmem' = Written(Blocks(ChannelArea(r.ctx), r.off, r.len), <<how, r.id>>)
         /\ fromDcp' = Append(fromDcp, [type |-> "ack", ctx |-> r.ctx])
         /\ queuedSwaps' = IF r.name = "submit" /\ how = "reply" THEN queuedSwaps \cup {r.swap} ELSE queuedSwaps
  /\ dcp' = Front(dcp)
  /\ UNCHANGED <<stack, callbackEnds, swapVars, ids, abandoned, toDcp, torn, asyncOut, doneSwaps>>

DcpSwaps ==
  /\ ~asyncOut /\ asyncOut' = TRUE
  /\ \E s \in queuedSwaps :
       /\ queuedSwaps' = queuedSwaps \ {s} /\ doneSwaps' = doneSwaps \cup {s}
       /\ fromDcp' = Append(fromDcp, [type |-> "callback", ctx |-> "async", off |-> 0, id |-> s, tag |-> "D589", swap |-> s])
       /\ shmem' = Written(Blocks("async", 0, 1), <<"callback", s>>)
  /\ UNCHANGED <<stack, callbackEnds, swapVars, ids, abandoned, toDcp, torn, dcp>>

IomfbNext ==
  \/ CallNext \/ WaitSwap \/ SwapSeen \/ TakeCallback \/ CallFromCallback \/ FinishCallback \/ TakeAck
  \/ DropAck \/ TimesOut \/ FailingCallback \/ DcpTakes \/ DcpSwaps
  \/ \E op \in Operations : Begin(op)
  \/ \E tag \in Tags : DcpCallsBack(tag)
  \/ \E how \in {"reply", "refused"} : DcpReplies(how)

IomfbSpec == IomfbInit /\ [][IomfbNext]_iomfbVars

------------------------------------------------------------------------------
(* However calls and callbacks nest, a call reads what the coprocessor wrote  *)
(* for it, and the coprocessor the output the kernel left: no packet of the   *)
(* stack overlays one still to be read.  After a call was left by an error,   *)
(* its late acknowledgement may be taken for the next one's.                  *)
RepliesIntact == abandoned = {} => ~torn

(* callback_ends mirrors the callbacks being handled, in their order, so that *)
(* a nested call is placed behind its own callback and one made at the top    *)
(* level is a command at the start of the area.                               *)
EndsMirrorNesting ==
  abandoned = {} =>
    \E at \in [DOMAIN callbackEnds -> DOMAIN stack] :
      /\ \A i \in DOMAIN stack : stack[i].kind = "callback" <=> \E k \in DOMAIN at : at[k] = i
      /\ \A k \in DOMAIN at :
           /\ \A l \in DOMAIN at : k < l => at[k] < at[l]
           /\ callbackEnds[k].ctx = stack[at[k]].ctx /\ callbackEnds[k].end = stack[at[k]].off + 1

(* Until an error the coprocessor waits only for callbacks that are on their  *)
(* way, being handled or acknowledged: whichever loop of the kernel receives  *)
(* them answers them.                                                         *)
CallbackIsServed ==
  abandoned = {} => \A i \in DOMAIN dcp : dcp[i].kind = "wait" =>
    \/ \E j \in DOMAIN fromDcp : fromDcp[j].type = "callback" /\ fromDcp[j].id = dcp[i].id
    \/ \E j \in DOMAIN stack : stack[j].kind = "callback" /\ stack[j].id = dcp[i].id
    \/ \E j \in DOMAIN toDcp : toDcp[j].type = "ack" /\ toDcp[j].ctx = "callback"

(* A completion is seen by the wait for its swap, also when it came before    *)
(* the wait began.                                                            *)
CompletionIsSeen ==
  (abandoned = {} /\ script = <<"wait">> /\ swap \in doneSwaps) =>
    \/ lastSwap = swap
    \/ \E j \in DOMAIN fromDcp : fromDcp[j].type = "callback" /\ fromDcp[j].tag = "D589" /\ fromDcp[j].swap = swap
    \/ \E j \in DOMAIN stack : stack[j].kind = "callback" /\ stack[j].tag = "D589" /\ stack[j].swap = swap

(* Calls and callbacks nested through one shared area: every reply is read as  *)
(* written, the ends follow the nesting, callbacks are served and a completion *)
(* is seen by its wait.                                                        *)
NestingIsSound == RepliesIntact /\ EndsMirrorNesting /\ CallbackIsServed /\ CompletionIsSeen

=============================================================================
