------------------------------- MODULE Windows -------------------------------
(***************************************************************************)
(* The windows of the agent (src/main/windowManager.js, src/widgets/*.js): *)
(* the main window, which hides instead of closing until the agent quits,  *)
(* and two widgets, which always hide.  What Electron does with them on    *)
(* app.quit() is external: it asks every window to close, one that refuses *)
(* calls the quit off, and the process ends with its last window.          *)
(***************************************************************************)
EXTENDS Integers

VARIABLES
    windows,   \* what became of each window: "none" before it is created or once destroyed
    quitting,  \* isQuitting of main.js, which is never reset
    asked      \* Electron has taken the quit and waits for the windows

windowVars == <<windows, quitting, asked>>

Widgets == {"focus", "brainDump"}

Windows == {"main"} \cup Widgets

Open(w) == windows[w] # "none"

AllClosed == \A w \in Windows : ~Open(w)

\* createWindow, when the application is ready.
WindowsInit ==
    /\ windows = [w \in Windows |-> IF w = "main" THEN "shown" ELSE "none"]
    /\ quitting = FALSE
    /\ asked = FALSE

Becomes(w, state) ==
    /\ windows' = [windows EXCEPT ![w] = state]
    /\ UNCHANGED <<quitting, asked>>

\* toggleFocusWidget, asked for by a page, and toggleBrainDumpWidget, by the
\* global shortcut.  Neither asks whether the agent is quitting.
Toggle(w) ==
    /\ w = "focus" => Open("main") \/ Open("focus")
    /\ Becomes(w, IF windows[w] = "shown" THEN "hidden" ELSE "shown")

\* hideBrainDumpWidget, which its page asks for, and its blur.
HideBrainDump ==
    /\ windows["brainDump"] = "shown"
    /\ Becomes("brainDump", "hidden")

\* A slip: the close handler that lets go whether or not the agent quits.
CloseAlways(w) ==
    /\ windows[w] = "shown"
    /\ Becomes(w, IF w = "main" THEN "none" ELSE "hidden")

\* The user closes a window: the handlers of "close" prevent it and hide the
\* window, but for the main window of an agent that quits.
Close(w) ==
    /\ windows[w] = "shown"
    /\ Becomes(w, IF w = "main" /\ quitting THEN "none" ELSE "hidden")

\* The tray's showMainWindow.  On a destroyed window show() throws.
ShowMain ==
    /\ windows["main"] = "hidden"
    /\ Becomes("main", "shown")

DestroyWidgets == [w \in Windows |-> IF w \in Widgets THEN "none" ELSE windows[w]]

\* What app.quit() and quitApp do to the windows.
QuitWindows ==
    /\ quitting' = TRUE
    /\ windows' = DestroyWidgets
    /\ asked' = TRUE

\* Electron closes the main window, or its page refuses to be left (beforeunload).
MainWindowCloses ==
    /\ asked /\ Open("main")
    /\ Becomes("main", "none")

PageRefuses ==
    /\ asked /\ Open("main")
    /\ asked' = FALSE
    /\ UNCHANGED <<windows, quitting>>
=============================================================================
