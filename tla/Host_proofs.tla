---------------------------- MODULE Host_proofs ----------------------------
(***************************************************************************)
(* Proofs about Host, for every bound on the messages.                     *)
(***************************************************************************)
EXTENDS Host, TLAPS

\* Messages are for a window: there is one while a message is handled.
WindowThere ==
  /\ window # "open" => queue = <<>> /\ ~ invalid
  /\ stage \in {"update", "dispatch"} => window = "open"

\* What the stack holds before the message loop, and which error branch
\* returned: a window exists only if it was the one of main.lua.
StartupStack ==
  /\ stage \in {"config", "globals"} => top = 0 /\ window = "none"
  /\ stage \in {"surface", "window"} => top = GlobalsKept /\ window = "none"
  /\ stage = "script" => top = GlobalsKept

\* Why the window does not show the last frame when tick is called.
Erased == shown = Nothing /\ (invalid \/ msg \in {"paint", "resize", "close"})

\* The frame was copied before its message was handled and tick was called.
FrameCopied ==
  /\ stage = "dispatch" => copied = frame /\ (shown = frame \/ (shown = Nothing /\ invalid))
  /\ stage = "tick" => copied = frame /\ (shown = frame \/ Erased)

HostInv == TypeOK /\ WindowThere /\ StartupStack /\ MainErrorShown /\ FrameCopied

LEMMA ShowsType == \A n \in Nat : Shows(n) \in BOOLEAN
BY DEF Shows

LEMMA TypeStep == ASSUME TypeOK, WindowThere, [Next]_vars PROVE TypeOK'
<1> USE DEF TypeOK, scripts, screen, messages, Startup, Loop, Ended
<1>1. CASE RunConfig
  <2>1. printed' \in BOOLEAN /\ top' \in Nat
    BY <1>1, ShowsType DEF RunConfig
  <2> QED BY <1>1, <2>1 DEF RunConfig
<1>2. CASE GetGlobals
  BY <1>2 DEF GetGlobals, GlobalsKept
<1>3. CASE CreateSurface
  BY <1>3 DEF CreateSurface
<1>4. CASE CreateTheWindow
  BY <1>4 DEF CreateTheWindow
<1>5. CASE RunMain
  <2>1. printed' \in BOOLEAN /\ top' \in Nat
    BY <1>5, ShowsType DEF RunMain
  <2> QED BY <1>5, <2>1 DEF RunMain
<1>6. CASE TakeMessage
  <2>1. Head(queue) \in Posted /\ Tail(queue) \in Seq(Posted)
    BY <1>6 DEF TakeMessage
  <2> QED BY <1>6, <2>1 DEF TakeMessage
<1>7. CASE TakeQuit
  BY <1>7 DEF TakeQuit
<1>8. CASE TakePaint
  BY <1>8 DEF TakePaint
<1>9. CASE ScreenUpdate
  BY <1>9 DEF ScreenUpdate, Copy
<1>10. CASE Dispatch
  <2>1. <<>> \in Seq(Posted)
    OBVIOUS
  <2>2. CASE msg = "close"
    BY <1>10, <2>1, <2>2 DEF Dispatch, Destroy, QuitPosted
  <2>3. CASE msg \in {"paint", "resize"}
    BY <1>10, <2>3 DEF Dispatch, Paint
  <2>4. CASE msg \notin {"close", "paint", "resize"}
    BY <1>10, <2>4 DEF Dispatch
  <2> QED BY <2>2, <2>3, <2>4
<1>11. CASE CallTick
  BY <1>11 DEF CallTick, TickLeaves
<1>12. CASE Post
  <2>1. \A m \in Posted : Append(queue, m) \in Seq(Posted)
    OBVIOUS
  <2> QED BY <1>12, <2>1 DEF Post
<1>13. CASE Uncover
  BY <1>13 DEF Uncover
<1>14. CASE UNCHANGED vars
  BY <1>14 DEF vars
<1> QED BY <1>1, <1>2, <1>3, <1>4, <1>5, <1>6, <1>7, <1>8, <1>9, <1>10, <1>11, <1>12, <1>13, <1>14
        DEF Next, Main

LEMMA WindowStep == ASSUME TypeOK, WindowThere, StartupStack, [Next]_vars PROVE WindowThere'
<1> USE DEF WindowThere, scripts, screen, messages
<1>1. CASE CreateTheWindow
  BY <1>1 DEF CreateTheWindow, StartupStack
<1>2. CASE RunConfig \/ GetGlobals \/ CreateSurface \/ RunMain
  BY <1>2 DEF RunConfig, GetGlobals, CreateSurface, RunMain
<1>3. CASE TakeMessage \/ TakeQuit \/ TakePaint
  BY <1>3 DEF TakeMessage, TakeQuit, TakePaint
<1>4. CASE ScreenUpdate \/ CallTick
  BY <1>4 DEF ScreenUpdate, CallTick
<1>5. CASE Dispatch
  BY <1>5 DEF Dispatch, Destroy, Paint
<1>6. CASE Post \/ Uncover
  BY <1>6 DEF Post, Uncover
<1>7. CASE UNCHANGED vars
  BY <1>7 DEF vars
<1> QED BY <1>1, <1>2, <1>3, <1>4, <1>5, <1>6, <1>7 DEF Next, Main

LEMMA FrameStep == ASSUME TypeOK, WindowThere, FrameCopied, [Next]_vars PROVE FrameCopied'
<1> USE DEF FrameCopied, Erased, scripts, screen, messages
<1>1. CASE RunConfig \/ GetGlobals \/ CreateSurface \/ CreateTheWindow \/ RunMain
  BY <1>1 DEF RunConfig, GetGlobals, CreateSurface, CreateTheWindow, RunMain
<1>2. CASE TakeMessage \/ TakeQuit \/ TakePaint \/ CallTick
  BY <1>2 DEF TakeMessage, TakeQuit, TakePaint, CallTick
<1>3. CASE ScreenUpdate
  BY <1>3 DEF ScreenUpdate, Copy, WindowThere
<1>4. CASE Dispatch
  BY <1>4 DEF Dispatch, Destroy, Paint
<1>5. CASE Post \/ Uncover
  BY <1>5 DEF Post, Uncover
<1>6. CASE UNCHANGED vars
  BY <1>6 DEF vars
<1> QED BY <1>1, <1>2, <1>3, <1>4, <1>5, <1>6 DEF Next, Main

\* The inductive invariant of the host.
THEOREM HostInvariant == Spec => []HostInv
<1>1. Init => HostInv
  <2>1. Init => TypeOK
    <3>1. <<>> \in Seq(Posted)
      OBVIOUS
    <3>2. Init => /\ printed \in BOOLEAN /\ title \in BOOLEAN /\ tick \in BOOLEAN
                  /\ quit \in BOOLEAN /\ invalid \in BOOLEAN
      BY Zenon DEF Init
    <3> QED BY <3>1, <3>2 DEF Init, TypeOK, Startup
  <2>2. Init => WindowThere /\ StartupStack /\ MainErrorShown /\ FrameCopied
    BY DEF Init, WindowThere, StartupStack, MainErrorShown, ScriptFailed, FrameCopied
  <2> QED BY <2>1, <2>2 DEF HostInv
<1>2. HostInv /\ [Next]_vars => HostInv'
  <2> SUFFICES ASSUME HostInv, [Next]_vars PROVE HostInv'
    OBVIOUS
  <2>1. TypeOK' /\ WindowThere' /\ FrameCopied'
    BY TypeStep, WindowStep, FrameStep DEF HostInv
  <2>2. StartupStack'
    <3> USE DEF HostInv, StartupStack, scripts, screen, messages
    <3>1. CASE RunConfig \/ GetGlobals \/ CreateSurface \/ CreateTheWindow \/ RunMain
      BY <3>1 DEF RunConfig, GetGlobals, CreateSurface, CreateTheWindow, RunMain, GlobalsKept
    <3>2. CASE TakeMessage \/ TakeQuit \/ TakePaint \/ ScreenUpdate \/ Dispatch \/ CallTick
      BY <3>2 DEF TakeMessage, TakeQuit, TakePaint, ScreenUpdate, Dispatch, CallTick
    <3>3. CASE Post \/ Uncover \/ UNCHANGED vars
      BY <3>3 DEF Post, Uncover, vars
    <3> QED BY <3>1, <3>2, <3>3 DEF Next, Main
  <2>3. MainErrorShown'
    <3> USE DEF HostInv, MainErrorShown, ScriptFailed, StartupStack
    <3>1. CASE RunConfig
      BY <3>1 DEF RunConfig, messages
    <3>2. CASE RunMain
      <4>1. top = 3 /\ stage = "script"
        BY <3>2 DEF RunMain, GlobalsKept
      <4>2. Shows(top + 1)
        BY <4>1 DEF Shows
      <4>3. stage' = "returned" => printed'
        BY <3>2, <4>2, Zenon DEF RunMain
      <4> QED BY <4>3
    <3>3. CASE CreateSurface \/ CreateTheWindow
      BY <3>3 DEF CreateSurface, CreateTheWindow, scripts, screen, messages
    <3>4. CASE Post \/ Uncover \/ UNCHANGED vars
      BY <3>4 DEF Post, Uncover, vars, scripts, screen, messages
    <3>5. CASE GetGlobals \/ TakeMessage \/ TakeQuit \/ TakePaint \/ ScreenUpdate \/ Dispatch \/ CallTick
      BY <3>5 DEF GetGlobals, TakeMessage, TakeQuit, TakePaint, ScreenUpdate, Dispatch, CallTick
    <3> QED BY <3>1, <3>2, <3>3, <3>4, <3>5 DEF Next, Main
  <2> QED BY <2>1, <2>2, <2>3 DEF HostInv
<1> QED BY <1>1, <1>2, PTL DEF Spec

\* An error of main.lua is always printed.
THEOREM MainErrorIsShown == Spec => []MainErrorShown
<1>1. HostInv => MainErrorShown
  BY DEF HostInv
<1> QED BY <1>1, HostInvariant, PTL

\* Every frame is copied to the window before tick draws the next one.
THEOREM FramesAreShown == Spec => EveryFrameShown
<1> DEFINE Shown == frame' # frame => copied = frame /\ (shown = frame \/ Erased)
<1>1. HostInv /\ [Next]_vars => [Shown]_vars
  <2> SUFFICES ASSUME HostInv, Next, frame' # frame
      PROVE  copied = frame /\ (shown = frame \/ Erased)
    OBVIOUS
  <2>1. CallTick
    BY DEF Next, Main, RunConfig, GetGlobals, CreateSurface, CreateTheWindow, RunMain, TakeMessage,
           TakeQuit, TakePaint, ScreenUpdate, Dispatch, Post, Uncover, scripts, screen, messages
  <2> QED BY <2>1 DEF CallTick, HostInv, FrameCopied
<1> QED BY <1>1, HostInvariant, PTL DEF Spec, EveryFrameShown, Erased
=============================================================================
