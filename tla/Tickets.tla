------------------------------- MODULE Tickets -------------------------------
(***************************************************************************)
(* The other one-time credentials of the store beside the state of a scan: *)
(* the mailed link to reset a password and the two tokens of the slider    *)
(* captcha (handler/auth_handler.go, captcha/captcha.go), together with    *)
(* WeComLogin: a reset saves a whole user row, as logins and links do.     *)
(***************************************************************************)
EXTENDS WeComLogin

-----------------------------------------------------------------------------
(* Password reset *)

\* ForgotPassword looks at the account and answers; the rest is a goroutine.
ForgotPassword(r, u) ==
  /\ user[u].on /\ user[u].mail # NoMail /\ ~user[u].barred
  /\ Begin(r, [Idle EXCEPT !.pc = "send", !.op = "forgot", !.u = u])
  /\ UNCHANGED <<rows, tok, gone, acts, hist>>

SendResetMail(r, t) ==
  /\ At(r, "send") /\ req[r].op = "forgot"
  /\ Draw(t, "reset", req[r].u)
  /\ End(r)
  /\ UNCHANGED <<rows, gone, bounds, hist>>

\* The token is read (as VerifyResetToken does, and stops there) ...
ResetPassword(r, t) ==
  /\ tok[t].phase = "live" /\ tok[t].kind = "reset"
  /\ Begin(r, [Idle EXCEPT !.pc = "tread", !.op = "reset", !.t = t, !.u = tok[t].u])
  /\ UNCHANGED <<rows, tok, gone, acts, hist>>

\* ... the password policy is applied and the row read; either may end it ...
ResetRead(r) ==
  /\ At(r, "tread")
  /\ \/ user[req[r].u].on /\ Holding(r, "tsave", req[r].u, user[req[r].u], "owner")
     \/ End(r)
  /\ UNCHANGED <<rows, tok, gone, bounds, hist>>

\* ... saved, and only then the token is deleted.
ResetSave(r) ==
  /\ At(r, "tsave")
  /\ user' = Saved(req[r].u, req[r].row)
  /\ Goto(r, "del")
  /\ UNCHANGED <<binding, tok, gone, bounds, hist>>

-----------------------------------------------------------------------------
(* Slider captcha *)

Generate(t) ==
  /\ Draw(t, "challenge", NoUser)
  /\ UNCHANGED <<rows, gone, req, bounds, hist>>

\* Verify and ConsumeTicket read a token; a missing one ends the request.
Present(r, t) ==
  /\ tok[t].phase = "live" /\ tok[t].kind \in {"challenge", "ticket"}
  /\ Begin(r, [Idle EXCEPT !.pc = "del", !.op = tok[t].kind, !.t = t])
  /\ UNCHANGED <<rows, tok, gone, acts, hist>>

\* Store.Del of a reset token, a challenge or a ticket.
DeleteToken(r) ==
  /\ At(r, "del") /\ req[r].op \in {"reset", "challenge", "ticket"}
  /\ tok' = [tok EXCEPT ![req[r].t] = DeadToken]
  /\ Goto(r, "answer")
  /\ UNCHANGED <<rows, gone, bounds, hist>>

\* The piece is in its place: a ticket is issued.
Solved(r, t) ==
  /\ At(r, "answer") /\ req[r].op = "challenge"
  /\ Draw(t, "ticket", NoUser)
  /\ honoured' = honoured \cup {req[r].t}
  /\ End(r)
  /\ UNCHANGED <<rows, gone, bounds, origin, solid, cut, shaky>>

\* Too fast, or off by more than the tolerance.
Unsolved(r) ==
  /\ At(r, "answer") /\ req[r].op = "challenge"
  /\ End(r)
  /\ UNCHANGED <<rows, tok, gone, bounds, hist>>

\* ConsumeTicket says true; ResetPassword answers.
Answer(r) ==
  /\ At(r, "answer") /\ req[r].op \in {"reset", "ticket"}
  /\ honoured' = honoured \cup {req[r].t}
  /\ End(r)
  /\ UNCHANGED <<rows, tok, gone, bounds, origin, solid, cut, shaky>>

-----------------------------------------------------------------------------
TicketStep(r) ==
  \/ \E u \in Users : ForgotPassword(r, u)
  \/ \E t \in Tokens : SendResetMail(r, t) \/ ResetPassword(r, t) \/ Present(r, t)
  \/ ResetRead(r) \/ ResetSave(r) \/ DeleteToken(r)
  \/ (\E t \in Tokens : Solved(r, t)) \/ Unsolved(r) \/ Answer(r)

TicketNext ==
  Next \/ (\E t \in Tokens : Generate(t)) \/ \E r \in Requests : TicketStep(r)

TicketSpec == Init /\ [][TicketNext]_vars

-----------------------------------------------------------------------------
(* Properties *)

\* States, reset links, captcha challenges and captcha tickets are one-time
\* credentials in the sense of OneTimeGrant: once one request has been
\* answered with success, no later one can begin with the same token, even for
\* a reset, which acts before it deletes.
Grant == INSTANCE OneTimeGrant WITH
  Key <- Tokens, Holder <- Requests,
  phase <- [t \in Tokens |-> tok[t].phase],
  held <- {p \in Requests \X Tokens : req[p[1]].t = p[2]},
  honoured <- honoured
TokenOnce == Grant!GrantSpec
=============================================================================
