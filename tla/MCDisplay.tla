------------------------------ MODULE MCDisplay -------------------------------
(* Small instances of the display's parts for TLC: the coprocessor's services, *)
(* the panel, the external display with its PHY and crossbar.  They share no   *)
(* variable: one is stepped at a time and the others rest.                     *)
EXTENDS EpicService, IomfbCalls, DcpBuffers, DcpPresent, AtcPhy, Dpxbar, DcpExtBoot

VARIABLE part

(* A callback that carries all it declares, one cut short, one whose answer    *)
(* has data.                                                                   *)
CallbackShapes == {<<3, 3, 0>>, <<1, 3, 0>>, <<3, 3, 2>>}

Sizes == {<<w, h>> : w \in {1, 3, 16, 1280}, h \in {1, 2, 9, 16, 800}}
Mode(v, w, h, f) == [valid |-> v, width |-> w, height |-> h, fps |-> f]
PanelModes == {Mode(TRUE, 3, 2, 60), Mode(TRUE, 6, 4, 120), Mode(TRUE, 4, 2, 48), Mode(FALSE, 9, 9, 30),
               Mode(TRUE, 0, 5, 60), Mode(TRUE, 4, 2, 60)}
ListsOf(S, n) == UNION {[1..k -> S] : k \in 0..n}
PanelTimings == ListsOf(PanelModes, 3)
SmallScreen == [width |-> 3, height |-> 3, stride |-> 7, bpp |-> 2]

SinkModes == {Mode(TRUE, 4, 2, 60), Mode(TRUE, 4, 2, 50), Mode(TRUE, 8, 4, 30), Mode(TRUE, 3, 2, 60),
              Mode(FALSE, 3, 1, 60), Mode(TRUE, 4, 2, 75)}
SinkTimings == ListsOf(SinkModes, 2)
SinkColors == {<<>>, <<[valid |-> TRUE, bpp |-> 24]>>}
Status(dp, hpd, sid) == [seen |-> "status", dp |-> dp, hpd |-> hpd, sid |-> sid]
TypecStates == {[seen |-> s, dp |-> FALSE, hpd |-> FALSE, sid |-> "none"] : s \in {"none", "error"}}
                 \cup {Status(d, h, s) : d, h \in BOOLEAN, s \in {"none", "status"}}
NothingPlugged == [seen |-> "none", dp |-> FALSE, hpd |-> FALSE, sid |-> "none"]

(* Two rings apart, the same two the other way round, one that is too long.    *)
RingsAt(tx, rx) == [blocks |-> 10, tx |-> tx, rx |-> rx]
AfkLayouts == {RingsAt(<<0, 5>>, <<5, 5>>), RingsAt(<<5, 5>>, <<0, 5>>), RingsAt(<<0, 5>>, <<6, 5>>)}

BootFifos == {{}, {0}}

Init ==
  /\ part \in {"afk", "epic", "iomfb", "buffers", "panel", "atc", "present", "xbar", "dma", "ext"}
  /\ AfkInit /\ EpicInit /\ IomfbInit /\ BufInit /\ PanelInit /\ PresentInit /\ DmaInit
  /\ IF part = "atc" THEN AtcInit
     ELSE AtcInit /\ cable = [mode |-> "dp", reverse |-> FALSE, told |-> FALSE]
  /\ IF part = "xbar" THEN XbarInit
     ELSE XbarInit /\ xreg.rdNClk = Dispexts /\ xreg.outNClk = Ports /\ xmux = [p \in Ports |-> NoDispext]
  /\ IF part = "ext" THEN ExtInit ELSE ExtInit /\ \A p \in {0, 1} : ports[p] = NothingPlugged

Next ==
  \/ part = "afk" /\ AfkNext
     /\ UNCHANGED <<part, epicVars, iomfbVars, bufVars, panelVars, atcVars, presentVars, xbarVars, dmaVars, extVars>>
  \/ part = "epic" /\ EpicNext
     /\ UNCHANGED <<part, afkVars, iomfbVars, bufVars, panelVars, atcVars, presentVars, xbarVars, dmaVars, extVars>>
  \/ part = "iomfb" /\ IomfbNext
     /\ UNCHANGED <<part, afkVars, epicVars, bufVars, panelVars, atcVars, presentVars, xbarVars, dmaVars, extVars>>
  \/ part = "buffers" /\ BufNext
     /\ UNCHANGED <<part, afkVars, epicVars, iomfbVars, panelVars, atcVars, presentVars, xbarVars, dmaVars, extVars>>
  \/ part = "panel" /\ PanelNext
     /\ UNCHANGED <<part, afkVars, epicVars, iomfbVars, bufVars, atcVars, presentVars, xbarVars, dmaVars, extVars>>
  \/ part = "atc" /\ AtcNext
     /\ UNCHANGED <<part, afkVars, epicVars, iomfbVars, bufVars, panelVars, presentVars, xbarVars, dmaVars, extVars>>
  \/ part = "present" /\ PresentNext
     /\ UNCHANGED <<part, afkVars, epicVars, iomfbVars, bufVars, panelVars, atcVars, xbarVars, dmaVars, extVars>>
  \/ part = "xbar" /\ XbarNext
     /\ UNCHANGED <<part, afkVars, epicVars, iomfbVars, bufVars, panelVars, atcVars, presentVars, dmaVars, extVars>>
  \/ part = "dma" /\ DmaNext
     /\ UNCHANGED <<part, afkVars, epicVars, iomfbVars, bufVars, panelVars, atcVars, presentVars, xbarVars, extVars>>
  \/ part = "ext" /\ ExtNext
     /\ UNCHANGED <<part, afkVars, epicVars, iomfbVars, bufVars, panelVars, atcVars, presentVars, xbarVars, dmaVars>>

vars == <<part, afkVars, epicVars, iomfbVars, bufVars, panelVars, atcVars, presentVars, xbarVars, dmaVars, extVars>>
Spec == Init /\ [][Next]_vars

(* The frame buffer service: calls and callbacks nest soundly, and the memory  *)
(* asked for in them is never mapped once it is free.                          *)
FrameBufferSound == NestingIsSound /\ DescriptorsSafe

(* The way to the external display: the probe gives up only when something     *)
(* failed it, picks a port with a live sink and a mode of that sink, and the   *)
(* crossbar's registers are the routes on record, switched while off.          *)
RouteIsReal ==
  /\ [](NeverStuck /\ RouteIsLive /\ ModeFits /\ RoutesAreReal)
  /\ MuxWhileOff /\ ReleasedIsStopped

=============================================================================
