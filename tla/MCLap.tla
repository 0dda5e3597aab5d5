-------------------------------- MODULE MCLap --------------------------------
(* Three updates of seven forms, from three chats and from none, to a table   *)
(* of two that holds one of them; two pages wait and the key clears them at   *)
(* any moment; one reset.  Updates are 1 or 3 s apart and Touch is 2: a stamp *)
(* may lag by an update or two, or be refreshed at once.                      *)
EXTENDS LapProps
CONSTANTS Ann, Bob, Cy

Form(k, c, num) == [kind |-> k, chat |-> c, n |-> num]
MCTemplates ==
  {Form("text", Bob, 0), Form("text", Cy, 0), Form("pager", NoChat, 0), Form("ask", Ann, 0),
   Form("last", Ann, 0), Form("query", Ann, 0), Form("query", Bob, 0)}
MCKnown == <<Entry(Ann, 0)>>
=============================================================================
