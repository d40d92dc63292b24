-------------------------------- MODULE Host --------------------------------
(***************************************************************************)
(* The Windows host program (kge/kge/src/main.cpp): it starts a Lua state, *)
(* reads config.lua, creates the bitmap and the window, registers its C    *)
(* functions, runs main.lua and then calls the global function tick once   *)
(* per window message.                                                     *)
(*                                                                         *)
(* What the host keeps is the Lua stack it calls scripts from, the bitmap  *)
(* that draw_pixel writes and that screen_update copies to the window, and *)
(* the messages of the window.  WM_PAINT only erases the window: nothing   *)
(* is drawn there until the next message.  Scripts are abstracted to their *)
(* outcome: whether they end, fail, draw, and what they leave in the       *)
(* global tick.  A call of a script is assumed to return.                  *)
(***************************************************************************)
EXTENDS Integers, Sequences

CONSTANTS
  MinStack,     \* LUA_MINSTACK: the slots a C function may use unasked
  QueueMax,     \* bound: messages waiting for the window
  MaxMessages   \* bound: messages and invalidations in a behaviour

ASSUME HostAssumption ==
  /\ MinStack \in Nat
  /\ QueueMax \in Nat \ {0}
  /\ MaxMessages \in Nat

VARIABLES
  stage,    \* how far main() is; in the message loop, the call it makes next
  top,      \* slots of the Lua stack in use: lua_gettop(L)
  printed,  \* whether the error message of a script was printed
  title,    \* whether config.lua leaves a string in win_title
  tick,     \* whether the global tick is a function
  frame,    \* the frame in the bitmap: calls of tick so far, partial ones too
  shown,    \* the frame that the window shows, Nothing where it was erased
  copied,   \* history: the frame that was copied to the window last
  window,   \* the window: "none", "open" or "destroyed"
  queue,    \* posted messages
  invalid,  \* whether a part of the window is to be painted
  msg,      \* the message that GetMessage gave last
  posted,   \* number of messages and invalidations so far
  quit      \* PostQuitMessage was called

scripts == <<top, printed, title, tick>>
screen == <<frame, shown, copied>>
messages == <<window, queue, invalid, msg, posted, quit>>
vars == <<stage, scripts, screen, messages>>

Startup == {"config", "globals", "surface", "window", "script"}
Loop == {"get", "update", "dispatch", "tick"}

\* Ways main() ends: lua_close and return, an early return, which leaves the
\* Lua state open, and strlen on a title that is NULL.
Ended == {"closed", "returned", "crashed"}

Nothing == -1

\* Posted messages: one that only needs an answer, one by which DefWindowProc
\* lets the user resize the window, and the close button.
Posted == {"input", "resize", "close"}

\* The error branches print the slots above the third one, of n slots in use.
Shows(n) == n > 3

\* The three values that main() reads from the globals stay on the stack.
\* Mutant: they are popped.
GlobalsPopped == 0
GlobalsKept == 3

\* luaL_loadfile and lua_pcall of config.lua; an error ends the program.
RunConfig ==
  /\ stage = "config"
  /\ \/ /\ stage' = "globals"
        /\ UNCHANGED <<top, printed>>
     \/ /\ stage' = "returned"
        /\ top' = top + 1
        /\ printed' = Shows(top + 1)
  /\ UNCHANGED <<title, tick, screen, messages>>

\* win_title, win_width and win_height.
GetGlobals ==
  /\ stage = "globals"
  /\ top' = top + GlobalsKept
  /\ title' \in BOOLEAN
  /\ stage' = "surface"
  /\ UNCHANGED <<printed, tick, screen, messages>>

\* CreateDIBSection, which fails for a width or height that is no size, and
\* device_init: the rows of the bitmap.
CreateSurface ==
  /\ stage = "surface"
  /\ stage' \in {"window", "returned"}
  /\ UNCHANGED <<scripts, screen, messages>>

\* MyRegisterClass and InitInstance; then the C functions are registered.
\* UpdateWindow has WndProc paint the window before it returns.
CreateTheWindow ==
  /\ stage = "window"
  /\ \/ /\ ~ title
        /\ stage' = "crashed"
        /\ UNCHANGED window
     \/ /\ title
        /\ stage' = "returned"
        /\ UNCHANGED window
     \/ /\ title
        /\ stage' = "script"
        /\ window' = "open"
  /\ UNCHANGED <<scripts, screen, queue, invalid, msg, posted, quit>>

\* luaL_dofile(L, "main.lua"), which may draw, define tick, or fail.
RunMain ==
  /\ stage = "script"
  /\ tick' \in BOOLEAN
  /\ \/ /\ stage' = "get"
        /\ UNCHANGED <<top, printed>>
     \/ /\ stage' = "returned"
        /\ top' = top + 1
        /\ printed' = Shows(top + 1)
  /\ UNCHANGED <<title, screen, messages>>

\* GetMessage takes the next posted message; when there is none, WM_QUIT, with
\* which the loop ends, and then WM_PAINT while a part of the window is invalid.
TakeMessage ==
  /\ stage = "get"
  /\ queue # <<>>
  /\ msg' = Head(queue)
  /\ queue' = Tail(queue)
  /\ stage' = "update"
  /\ UNCHANGED <<scripts, screen, window, invalid, posted, quit>>

TakeQuit ==
  /\ stage = "get"
  /\ queue = <<>>
  /\ quit
  /\ stage' = "closed"
  /\ top' = 0
  /\ UNCHANGED <<printed, title, tick, screen, messages>>

TakePaint ==
  /\ stage = "get"
  /\ queue = <<>>
  /\ ~ quit
  /\ invalid
  /\ msg' = "paint"
  /\ stage' = "update"
  /\ UNCHANGED <<scripts, screen, window, queue, invalid, posted, quit>>

\* screen_update, before the message is handled; what it copies does not make
\* the window valid.  Mutant: only when no message waits.
Copy == IF window = "open" THEN shown' = frame /\ copied' = frame ELSE UNCHANGED <<shown, copied>>
UpdateIdle ==
  /\ stage = "update"
  /\ IF queue = <<>> THEN Copy ELSE UNCHANGED <<shown, copied>>
  /\ stage' = "dispatch"
  /\ UNCHANGED <<scripts, frame, messages>>
ScreenUpdate ==
  /\ stage = "update"
  /\ Copy
  /\ stage' = "dispatch"
  /\ UNCHANGED <<scripts, frame, messages>>

\* WM_PAINT: BeginPaint fills what is invalid with the brush of the class, and
\* EndPaint follows.
Paint ==
  /\ shown' = Nothing
  /\ invalid' = FALSE
  /\ UNCHANGED <<window, quit, queue>>

\* What WM_DESTROY makes of quit.  Mutant: no PostQuitMessage.
QuitForgotten == quit
QuitPosted == TRUE

\* DefWindowProc destroys the window for WM_CLOSE, whose other messages are
\* dropped.
Destroy ==
  /\ window' = "destroyed" /\ shown' = Nothing /\ invalid' = FALSE
  /\ queue' = <<>>
  /\ quit' = QuitPosted

\* DispatchMessage and WndProc, which is called again for the messages that a
\* resized window gets before DefWindowProc returns.
Dispatch ==
  /\ stage = "dispatch"
  /\ stage' = "tick"
  /\ \/ msg = "close" /\ Destroy
     \/ msg \in {"paint", "resize"} /\ Paint
     \/ msg = "input" /\ UNCHANGED <<shown, invalid, window, quit, queue>>
  /\ UNCHANGED <<scripts, frame, copied, msg, posted>>

\* The global tick is pushed.  Only a function is called: anything else stays
\* on the stack, as does the message of an error.
TickLeaves == IF tick THEN {0, 1} ELSE {1}

\* Scripts may assign tick.
CallTick ==
  /\ stage = "tick"
  /\ stage' = "get"
  /\ \E n \in TickLeaves : top' = top + n
  /\ IF tick THEN frame' = frame + 1 /\ tick' \in BOOLEAN
             ELSE UNCHANGED <<frame, tick>>
  /\ UNCHANGED <<printed, title, shown, copied, messages>>

\* The user posts a message, or uncovers a part of the window, whose content
\* may be lost.
Post ==
  /\ window = "open"
  /\ Len(queue) < QueueMax
  /\ posted < MaxMessages
  /\ posted' = posted + 1
  /\ \E m \in Posted : queue' = Append(queue, m)
  /\ UNCHANGED <<stage, scripts, screen, window, invalid, msg, quit>>

Uncover ==
  /\ window = "open"
  /\ ~ invalid
  /\ posted < MaxMessages
  /\ posted' = posted + 1
  /\ invalid' = TRUE
  /\ shown' \in {shown, Nothing}
  /\ UNCHANGED <<stage, scripts, frame, copied, window, queue, msg, quit>>

Main ==
  \/ RunConfig \/ GetGlobals \/ CreateSurface \/ CreateTheWindow \/ RunMain
  \/ TakeMessage \/ TakeQuit \/ TakePaint \/ ScreenUpdate \/ Dispatch \/ CallTick

Next == Main \/ Post \/ Uncover

Init ==
  /\ stage = "config"
  /\ top = 0
  /\ printed = FALSE
  /\ title = FALSE
  /\ tick = FALSE
  /\ frame = 0 /\ shown = Nothing /\ copied = Nothing
  /\ window = "none"
  /\ queue = <<>> /\ invalid = FALSE /\ msg = "none"
  /\ posted = 0
  /\ quit = FALSE

\* main() runs whenever it is not waiting for a message.
Spec == Init /\ [][Next]_vars /\ WF_vars(Main)

-----------------------------------------------------------------------------
TypeOK ==
  /\ stage \in Startup \cup Loop \cup Ended
  /\ top \in Nat
  /\ printed \in BOOLEAN /\ title \in BOOLEAN /\ tick \in BOOLEAN
  /\ frame \in Nat /\ shown \in Nat \cup {Nothing} /\ copied \in Nat \cup {Nothing}
  /\ window \in {"none", "open", "destroyed"}
  /\ queue \in Seq(Posted) /\ invalid \in BOOLEAN
  /\ msg \in Posted \cup {"none", "paint"}
  /\ posted \in Nat
  /\ quit \in BOOLEAN

\* A script ended the program: its error message is the slot on top.
ScriptFailed == stage = "returned" /\ top \notin {0, GlobalsKept}

\* The error message that ends main.lua is printed: the error branch skips the
\* first three slots, which is right only because three values were left there.
MainErrorShown == ScriptFailed /\ window = "open" => printed

\* No frame is lost: when tick draws the next frame, the last one has been on
\* the window, although drawing and showing happen for different messages; and
\* it still is, unless the message in between had the window erased or closed,
\* or a part of the window was lost and waits to be painted.
EveryFrameShown ==
  [][frame' # frame =>
       /\ copied = frame
       /\ shown = frame \/ (shown = Nothing /\ (invalid \/ msg \in {"paint", "resize", "close"}))]_vars

Closing == quit \/ msg = "close" \/ \E i \in 1..Len(queue) : queue[i] = "close"

\* Closing the window ends the program, with the Lua state closed: the loop
\* does not stop before WM_QUIT and nothing it does on the way can block.
CloseEndsProgram == Closing ~> stage \in Ended

\* What api_incr_top asserts of every push: L->top stays below ci->top.
StackInFrame == top <= MinStack

=============================================================================
