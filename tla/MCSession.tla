----------------------------- MODULE MCSession -----------------------------
(* Instances of Session.                                                   *)
EXTENDS Session

AllKinds == {"empty", "text", "longtext", "files", "image"}

\* all but GET_COPIED_IMAGE
SomeMethods == {SEND_TEXT, SEND_FILE, GET_TEXT, GET_FILE, GET_IMAGE, GET_SCREENSHOT, GET_ANY, INFO}
=============================================================================
