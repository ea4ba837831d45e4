---------------------------- MODULE TokenSession ----------------------------
(***************************************************************************)
(* Access and refresh tokens: app/core/security.py, the login, refresh and *)
(* logout endpoints of app/routes/auth.py, get_current_user and            *)
(* get_current_active_user of app/dependencies.py, and the blacklist in    *)
(* Redis.  Several API servers share the secret and Redis but not a clock. *)
(* Time is counted in ticks, SECOND of them a second; tokens and Redis     *)
(* keys expire at whole seconds of the clock that set them.                *)
(***************************************************************************)
EXTENDS Integers, Sequences

CONSTANTS
  Servers,      \* API processes
  Requests,     \* calls that present a token
  SECOND,       \* ticks
  AccessLife,   \* ticks
  RefreshLife,  \* ticks
  Leeway,       \* ticks past its end that decode_token still accepts a token
  Skew,         \* ticks a server's clock may be off
  MaxTokens,    \* bound: tokens that are issued
  MaxTime,      \* bound: ticks
  Faults        \* the kinds of failure that may happen

FaultKinds == {"redis"}  \* a Redis command raises

ASSUME TokenFaultsAssumption == Faults \subseteq FaultKinds
ASSUME SecondAssumption == SECOND \in Nat \ {0}
ASSUME LivesAssumption == AccessLife \in Nat /\ RefreshLife \in Nat
ASSUME BoundsAssumption == MaxTokens \in Nat /\ MaxTime \in Nat

\* The leeway takes two clocks that are off and the part of a second that is
\* cut off: with 10 seconds, clocks within 4 seconds of the time.
ASSUME LeewayAssumption == Skew \in Nat /\ Leeway \in Nat /\ Leeway + 1 >= 2 * Skew + SECOND

VARIABLES
  now,        \* the time
  offset,     \* how far the clock of each server is off
  issued,     \* the tokens, in the order they were issued
  blacklist,  \* when the blacklist:* key of each token expires
  call,       \* what each request is doing
  revoked     \* history: the tokens that logouts dealt with and Redis served

clocks == <<now, offset>>
vars   == <<clocks, issued, blacklist, call, revoked>>

Types    == {"access", "refresh"}
Tokens   == 1..Len(issued)
Life(ty) == IF ty = "access" THEN AccessLife ELSE RefreshLife
Clock(s) == now + offset[s]

\* The last whole second at or before a time.
WholeSecond(t) == (t \div SECOND) * SECOND

Ended == {"accepted", "refused", "done"}
Steps == Ended \cup {"idle", "ask", "decode", "access", "cookie"}

\* token and cookie: what is presented, 0 for nothing; read: the clock as
\* logout read it; blind: Redis did not answer; late: history, the token had
\* been revoked, and was not in its last second, when the blacklist was asked.
Calls == [at : Steps, server : Servers, refresh : BOOLEAN, token : 0..MaxTokens,
          cookie : 0..MaxTokens, read : Int, blind : BOOLEAN, late : BOOLEAN]

Fresh(s) == [at |-> "idle", server |-> s, refresh |-> FALSE, token |-> 0,
             cookie |-> 0, read |-> 0, blind |-> FALSE, late |-> FALSE]

TypeOK ==
  /\ now \in 0..MaxTime
  /\ offset \in [Servers -> -Skew..Skew]
  /\ issued \in Seq([type : Types, exp : Int, born : 0..MaxTime])
  /\ Len(issued) <= MaxTokens
  /\ blacklist \in [1..MaxTokens -> Nat]
  /\ call \in [Requests -> Calls]
  /\ revoked \subseteq Tokens

Init ==
  /\ now = 0
  /\ offset \in [Servers -> -Skew..Skew]
  /\ issued = <<>>
  /\ blacklist = [t \in 1..MaxTokens |-> 0]
  /\ call \in [Requests -> {Fresh(s) : s \in Servers}]
  /\ revoked = {}

\* A call that ended is only known by its outcome.
End(r, step) == call' = [call EXCEPT ![r] = [Fresh(@.server) EXCEPT !.at = step]]
LetIn(r) == call' = [call EXCEPT ![r] =
  [Fresh(@.server) EXCEPT !.at = "accepted", !.late = call[r].late, !.blind = call[r].blind]]
-----------------------------------------------------------------------------
(***************************************************************************)
(* TokenManager                                                            *)
(***************************************************************************)
\* create_access_token and create_refresh_token.
NewToken(type, s) ==
  [type |-> type, exp |-> WholeSecond(Clock(s) + Life(type)), born |-> now]

\* Mutant: no leeway.
DecodesStrictly(t, s) == issued[t].exp > Clock(s)

\* decode_token.
Decodes(t, s) == issued[t].exp > Clock(s) - Leeway
-----------------------------------------------------------------------------
(***************************************************************************)
(* Login, refresh and the requests of a logged-in user                     *)
(***************************************************************************)
Login(s) ==
  /\ Len(issued) + 2 <= MaxTokens
  /\ issued' = issued \o <<NewToken("refresh", s), NewToken("access", s)>>
  /\ UNCHANGED <<clocks, blacklist, call, revoked>>

\* A bearer token of either type, or a refresh cookie.
Present(r) ==
  /\ call[r].at = "idle"
  /\ \E t \in Tokens, refresh \in BOOLEAN :
       call' = [call EXCEPT ![r].at = "ask", ![r].token = t, ![r].refresh = refresh]
  /\ UNCHANGED <<clocks, issued, blacklist, revoked>>

Blacklisted(t) == now < blacklist[t]
LastSecond(t)  == now + Skew + SECOND >= issued[t].exp

\* is_token_blacklisted; a Redis error is a no.
AskBlacklist(r) ==
  /\ call[r].at = "ask"
  /\ LET t == call[r].token
         late == t \in revoked /\ ~LastSecond(t)
     IN \/ /\ Blacklisted(t)
           /\ End(r, "refused")
        \/ /\ ~Blacklisted(t)
           /\ call' = [call EXCEPT ![r].at = "decode", ![r].late = late]
        \/ /\ "redis" \in Faults
           /\ call' = [call EXCEPT ![r].at = "decode", ![r].late = late, ![r].blind = TRUE]
  /\ UNCHANGED <<clocks, issued, blacklist, revoked>>

\* The token has to decode, a refresh token to be one.
Refuse(r) ==
  /\ call[r].at = "decode"
  /\ \/ ~Decodes(call[r].token, call[r].server)
     \/ call[r].refresh /\ issued[call[r].token].type # "refresh"
  /\ End(r, "refused")
  /\ UNCHANGED <<clocks, issued, blacklist, revoked>>

\* The user is loaded and the handler runs.
Accept(r) ==
  /\ call[r].at = "decode"
  /\ Decodes(call[r].token, call[r].server)
  /\ ~call[r].refresh
  /\ LetIn(r)
  /\ UNCHANGED <<clocks, issued, blacklist, revoked>>

\* refresh_access_token issues an access token; the refresh token stays.
Refresh(r) ==
  /\ call[r].at = "decode"
  /\ Decodes(call[r].token, call[r].server)
  /\ call[r].refresh /\ issued[call[r].token].type = "refresh"
  /\ Len(issued) < MaxTokens
  /\ issued' = Append(issued, NewToken("access", call[r].server))
  /\ LetIn(r)
  /\ UNCHANGED <<clocks, blacklist, revoked>>
-----------------------------------------------------------------------------
(***************************************************************************)
(* Logout                                                                  *)
(***************************************************************************)
\* The clock is read once, before the first token.
LogoutBegin(r) ==
  /\ call[r].at = "idle"
  /\ \E t \in Tokens, c \in Tokens \cup {0} :
       /\ c # 0 => issued[c].type = "refresh"
       /\ call' = [call EXCEPT ![r].at = "access", ![r].token = t, ![r].cookie = c,
                               ![r].read = Clock(call[r].server)]
  /\ UNCHANGED <<clocks, issued, blacklist, revoked>>

\* What token t has left by the clock that was read, as whole seconds.
SecondsLeft(t, read) == (issued[t].exp - read) \div SECOND

\* setex for what the token has left.  A token that does not decode, or that
\* is in its last second, is left alone; an error of Redis is only logged.
Blacklist(t, r, left) ==
  \/ /\ Decodes(t, call[r].server) /\ left > 0
     /\ blacklist' = [blacklist EXCEPT ![t] = now + left * SECOND]
     /\ revoked' = revoked \cup {t}
  \/ /\ ~Decodes(t, call[r].server) \/ left <= 0
     /\ revoked' = revoked \cup {t}
     /\ UNCHANGED blacklist
  \/ /\ "redis" \in Faults
     /\ UNCHANGED <<blacklist, revoked>>

LogoutAccess(r) ==
  /\ call[r].at = "access"
  /\ Blacklist(call[r].token, r, SecondsLeft(call[r].token, call[r].read))
  /\ IF call[r].cookie = 0 THEN End(r, "done")
     ELSE call' = [call EXCEPT ![r].at = "cookie"]
  /\ UNCHANGED <<clocks, issued>>

\* Mutant: the cookie is blacklisted for what the access token has left.
LogoutCookieForAccess(r) ==
  /\ call[r].at = "cookie"
  /\ Blacklist(call[r].cookie, r, SecondsLeft(call[r].token, call[r].read))
  /\ End(r, "done")
  /\ UNCHANGED <<clocks, issued>>

LogoutCookie(r) ==
  /\ call[r].at = "cookie"
  /\ Blacklist(call[r].cookie, r, SecondsLeft(call[r].cookie, call[r].read))
  /\ End(r, "done")
  /\ UNCHANGED <<clocks, issued>>
-----------------------------------------------------------------------------
Tick ==
  /\ now < MaxTime
  /\ now' = now + 1
  /\ UNCHANGED <<offset, issued, blacklist, call, revoked>>

Next ==
  \/ Tick
  \/ \E s \in Servers : Login(s)
  \/ \E r \in Requests :
       \/ Present(r) \/ AskBlacklist(r) \/ Refuse(r) \/ Accept(r) \/ Refresh(r)
       \/ LogoutBegin(r) \/ LogoutAccess(r) \/ LogoutCookie(r)

Spec == Init /\ [][Next]_vars
-----------------------------------------------------------------------------
(***************************************************************************)
(* Properties                                                              *)
(***************************************************************************)
\* A request is let in with a token that had been revoked before the blacklist
\* was asked only if Redis did not answer, or in the last second of the token's
\* life and the leeway after it, where the blacklist no longer holds it: the
\* entry expires by the server that wrote it, in whole seconds, and the token
\* by the server that reads it (logout, is_token_blacklisted, decode_token).
\* A request that had asked before the logout goes on.
RevokedIsRefused ==
  \A r \in Requests : call[r].at = "accepted" /\ call[r].late => call[r].blind

\* Nobody is logged out early: while a token has not had its whole life, every
\* server still decodes it, whichever server issued it (decode_token's leeway).
LeewayCoversSkew ==
  \A t \in Tokens : now < issued[t].born + Life(issued[t].type) =>
    \A s \in Servers : Decodes(t, s)
=============================================================================
