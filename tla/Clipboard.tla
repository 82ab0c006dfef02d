------------------------------ MODULE Clipboard ------------------------------
(****************************************************************************)
(* The copy button under a recovery code (src/webui/assets/clipboard.js):   *)
(* the asynchronous clipboard of secure pages, the old copy command where   *)
(* that is missing or denied, the marking of the code where both fail, and  *)
(* the timer that gives the button its text back.                           *)
(****************************************************************************)
EXTENDS Naturals

VARIABLES secure,    \* navigator.clipboard in a secure context
          code,      \* the text of #recCode, "" when the dialog has none
          clip,      \* what the clipboard holds
          marked,    \* the code is selected on the page
          button     \* its text, whether it is off, and what it waits for

clipVars == <<secure, code, clip, marked, button>>

Label == [label |-> "copy", off |-> FALSE, waits |-> "none"]

----------------------------------------------------------------------------
\* The end of copyRecoveryCode(): copied or not, then its timer.
Told(copied) ==
  /\ button' = [label |-> IF copied THEN "copied" ELSE "failed",
                off |-> TRUE, waits |-> "timer"]
  /\ marked' = (marked \/ (~copied /\ code # ""))

\* The old copy command on a hidden text field, which takes the selection: it
\* copies, or it refuses or throws.
Legacy ==
  \/ clip' = code /\ Told(TRUE)
  \/ clip' = clip /\ Told(FALSE)

\* The button is pressed.  Without a code nothing is copied.
Copy ==
  /\ ~button.off
  /\ \/ /\ code = "" /\ Told(FALSE) /\ UNCHANGED clip
     \/ /\ code # "" /\ secure
        /\ button' = [label |-> "copying", off |-> TRUE, waits |-> "clipboard"]
        /\ UNCHANGED <<clip, marked>>
     \/ code # "" /\ ~secure /\ Legacy
  /\ UNCHANGED <<secure, code>>

\* writeText() is allowed, or denied by a policy of the frame.
Denied_trusted == UNCHANGED clip /\ Told(TRUE)
Denied == Legacy

Written ==
  /\ button.waits = "clipboard"
  /\ \/ clip' = code /\ Told(TRUE)
     \/ Denied
  /\ UNCHANGED <<secure, code>>

\* 1.8 or 5 seconds later.
Restored == /\ button.waits = "timer" /\ button' = Label
            /\ UNCHANGED <<secure, code, clip, marked>>

\* The user copies something else, or selects something else.
Elsewhere ==
  /\ clip' = "other" /\ marked' = FALSE
  /\ UNCHANGED <<secure, code, button>>

ClipInit == /\ secure \in BOOLEAN /\ code \in {"", "code"}
            /\ clip = "other" /\ marked = FALSE /\ button = Label

ClipNext == Copy \/ Written \/ Restored \/ Elsewhere

----------------------------------------------------------------------------
ClipTypeOK ==
  /\ secure \in BOOLEAN /\ code \in {"", "code"} /\ clip \in {"other", "code"}
  /\ marked \in BOOLEAN
  /\ button \in [label : {"copy", "copying", "copied", "failed"}, off : BOOLEAN,
                 waits : {"none", "clipboard", "timer"}]

\* The button says that the code was copied only when it is in the clipboard,
\* whichever way it was tried; when it was not, a code is selected for the
\* user, who sees it only once (clipboard.js:54-64).
CopyTold ==
  [][/\ button'.label = "copied" /\ button.label # "copied" => clip' = code /\ code # ""
     /\ button'.label = "failed" /\ button.label # "failed" => code = "" \/ marked'
    ]_clipVars
=============================================================================
