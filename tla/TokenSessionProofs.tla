------------------------- MODULE TokenSessionProofs --------------------------
(***************************************************************************)
(* Proofs about TokenSession, for any servers, requests, lives, length of  *)
(* a second and clocks that are off by at most Skew.                       *)
(***************************************************************************)
EXTENDS TokenSession, TLAPS

TokenRecords == [type : Types, exp : Int, born : 0..MaxTime]
Presenting   == {"ask", "decode", "access", "cookie"}

\* A token ends at most a second and the skew of a clock before its life does.
WholeLives ==
  \A t \in Tokens :
    issued[t].exp + Skew + SECOND > issued[t].born + Life(issued[t].type)

\* What is presented was issued, and the clock that a logout read is not ahead
\* of the time by more than the skew.
Presents(r) ==
  /\ call[r].at \in Presenting => call[r].token \in Tokens
  /\ call[r].at \in {"access", "cookie"} =>
       call[r].read <= now + Skew /\ call[r].cookie \in Tokens \cup {0}
  /\ call[r].at = "cookie" => call[r].cookie # 0
Presented == \A r \in Requests : Presents(r)

\* The entry of a token that was dealt with lasts to the last second of its
\* life, if that has not begun.
Outlasted(t) ==
  \/ blacklist[t] + Skew + SECOND > issued[t].exp
  \/ now + Skew + SECOND >= issued[t].exp
Held == \A t \in revoked : Outlasted(t)

\* No request gets past a blacklist that answered, whatever becomes of it.
Blind(r)  == call[r].late => call[r].blind
OnlyBlind == \A r \in Requests : Blind(r)

SessionIInv == TypeOK /\ WholeLives /\ Presented /\ Held /\ OnlyBlind
-----------------------------------------------------------------------------
(***************************************************************************)
(* The model's operators                                                   *)
(***************************************************************************)
LEMMA Seconds ==
  ASSUME NEW t \in Int
  PROVE  /\ t \div SECOND \in Int
         /\ (t \div SECOND) * SECOND \in Int
         /\ (t \div SECOND) * SECOND <= t
         /\ t < (t \div SECOND) * SECOND + SECOND
BY SecondAssumption

LEMMA ClockBounds ==
  ASSUME TypeOK, NEW s \in Servers
  PROVE  Clock(s) \in Int /\ now - Skew <= Clock(s) /\ Clock(s) <= now + Skew
BY LeewayAssumption, BoundsAssumption DEF TypeOK, Clock

LEMMA LifeType == \A type \in Types : Life(type) \in Nat
BY LivesAssumption DEF Life, Types

LEMMA TokenType ==
  ASSUME TypeOK, NEW t \in Tokens
  PROVE  /\ issued[t].exp \in Int /\ issued[t].born \in Nat /\ issued[t].type \in Types
         /\ t \in 1..MaxTokens /\ blacklist[t] \in Nat /\ now \in Nat
<1>1. issued \in Seq(TokenRecords) /\ t \in 1..Len(issued) /\ Len(issued) <= MaxTokens
  BY DEF TypeOK, TokenRecords, Tokens
<1>2. issued[t] \in TokenRecords
  BY <1>1
<1>3. t \in 1..MaxTokens
  BY <1>1, BoundsAssumption
<1> QED BY <1>2, <1>3, BoundsAssumption DEF TypeOK, TokenRecords

LEMMA NewTokenLives ==
  ASSUME TypeOK, NEW s \in Servers, NEW type \in Types
  PROVE  /\ NewToken(type, s) \in TokenRecords
         /\ NewToken(type, s).exp + Skew + SECOND
              > NewToken(type, s).born + Life(NewToken(type, s).type)
<1>1. Clock(s) \in Int /\ now - Skew <= Clock(s)
  BY ClockBounds
<1>2. Life(type) \in Nat
  BY LifeType
<1> DEFINE end == Clock(s) + Life(type)
<1>3. end \in Int /\ now - Skew + Life(type) <= end
  BY <1>1, <1>2, LeewayAssumption, BoundsAssumption DEF TypeOK
<1>4. WholeSecond(end) \in Int /\ end < WholeSecond(end) + SECOND
  <2> HIDE DEF end
  <2> QED BY <1>3, Seconds DEF WholeSecond
<1>5. NewToken(type, s) = [type |-> type, exp |-> WholeSecond(end), born |-> now]
  BY DEF NewToken
<1> HIDE DEF end
<1> QED
  BY <1>2, <1>3, <1>4, <1>5, SecondAssumption, LeewayAssumption, BoundsAssumption
     DEF TypeOK, TokenRecords

LEMMA FreshType == \A s \in Servers : Fresh(s) \in Calls
BY BoundsAssumption DEF Fresh, Calls, Steps, Ended

LEMMA EndType ==
  ASSUME TypeOK, NEW r \in Requests, NEW step \in Ended, End(r, step)
  PROVE  /\ call' \in [Requests -> Calls]
         /\ call'[r].at = step /\ ~call'[r].late
         /\ \A q \in Requests \ {r} : call'[q] = call[q]
<1>1. call[r] \in Calls
  BY DEF TypeOK
<1>2. call[r].server \in Servers
  BY <1>1 DEF Calls
<1> DEFINE ended == [Fresh(call[r].server) EXCEPT !.at = step]
<1>3. ended \in Calls /\ ended.at = step /\ ~ended.late
  <2>1. ended = [Fresh(call[r].server) EXCEPT !.at = step] /\ Fresh(call[r].server) \in Calls
    BY <1>2, FreshType
  <2>2. step \in Steps /\ ~Fresh(call[r].server).late
    BY DEF Steps, Fresh
  <2> QED BY <2>1, <2>2 DEF Calls
<1>4. call' = [call EXCEPT ![r] = ended]
  BY DEF End
<1> HIDE DEF ended
<1> QED BY <1>3, <1>4 DEF TypeOK

LEMMA LetInType ==
  ASSUME TypeOK, NEW r \in Requests, LetIn(r)
  PROVE  /\ call' \in [Requests -> Calls]
         /\ call'[r].at = "accepted"
         /\ call'[r].late = call[r].late /\ call'[r].blind = call[r].blind
         /\ \A q \in Requests \ {r} : call'[q] = call[q]
<1>1. call[r] \in Calls
  BY DEF TypeOK
<1>2. call[r].server \in Servers /\ call[r].late \in BOOLEAN /\ call[r].blind \in BOOLEAN
  BY <1>1 DEF Calls
<1> DEFINE through == [Fresh(call[r].server) EXCEPT !.at = "accepted",
                         !.late = call[r].late, !.blind = call[r].blind]
<1>3. /\ through \in Calls /\ through.at = "accepted"
      /\ through.late = call[r].late /\ through.blind = call[r].blind
  <2>1. Fresh(call[r].server) \in Calls
    BY <1>2, FreshType
  <2>2. "accepted" \in Steps
    BY DEF Steps, Ended
  <2> QED BY <1>2, <2>1, <2>2 DEF Calls
<1>4. call' = [call EXCEPT ![r] = through]
  BY DEF LetIn
<1> HIDE DEF through
<1> QED BY <1>3, <1>4 DEF TypeOK
-----------------------------------------------------------------------------
(***************************************************************************)
(* Tokens are only added                                                   *)
(***************************************************************************)
\* What Login and Refresh do to the tokens.
Issues ==
  /\ issued' \in Seq(TokenRecords)
  /\ Len(issued) <= Len(issued') /\ Len(issued') <= MaxTokens
  /\ \A t \in Tokens : issued'[t] = issued[t]
  /\ \A t \in Tokens' \ Tokens :
       issued'[t].exp + Skew + SECOND > issued'[t].born + Life(issued'[t].type)

LEMMA LoginIssues ==
  ASSUME TypeOK, NEW s \in Servers, Login(s)
  PROVE  Issues
<1> DEFINE refresh == NewToken("refresh", s)
           access  == NewToken("access", s)
<1>1. /\ refresh \in TokenRecords
      /\ refresh.exp + Skew + SECOND > refresh.born + Life(refresh.type)
      /\ access \in TokenRecords
      /\ access.exp + Skew + SECOND > access.born + Life(access.type)
  BY NewTokenLives DEF Types
<1>2. issued \in Seq(TokenRecords) /\ Len(issued) + 2 <= MaxTokens
  BY DEF TypeOK, TokenRecords, Login
<1>3. issued' = issued \o <<refresh, access>>
  BY DEF Login
<1> HIDE DEF refresh, access
<1>4. <<refresh, access>> \in Seq(TokenRecords)
  BY <1>1
<1>5. /\ issued' \in Seq(TokenRecords) /\ Len(issued') = Len(issued) + 2
      /\ \A t \in Tokens : issued'[t] = issued[t]
      /\ issued'[Len(issued) + 1] = refresh /\ issued'[Len(issued) + 2] = access
  BY <1>2, <1>3, <1>4 DEF Tokens
<1>6. \A t \in Tokens' \ Tokens : t \in {Len(issued) + 1, Len(issued) + 2}
  BY <1>2, <1>5 DEF Tokens
<1>7. \A t \in Tokens' \ Tokens : issued'[t] \in {refresh, access}
  BY <1>5, <1>6
<1>8. \A t \in Tokens' \ Tokens :
        issued'[t].exp + Skew + SECOND > issued'[t].born + Life(issued'[t].type)
  BY <1>1, <1>7
<1> QED BY <1>2, <1>5, <1>8, BoundsAssumption DEF Issues

LEMMA RefreshIssues ==
  ASSUME TypeOK, NEW r \in Requests, Refresh(r)
  PROVE  Issues
<1> DEFINE access == NewToken("access", call[r].server)
<1>0. call[r].server \in Servers
  BY DEF TypeOK, Calls
<1>1. /\ access \in TokenRecords
      /\ access.exp + Skew + SECOND > access.born + Life(access.type)
  BY <1>0, NewTokenLives DEF Types
<1>2. issued \in Seq(TokenRecords) /\ Len(issued) < MaxTokens
  BY DEF TypeOK, TokenRecords, Refresh
<1>3. issued' = Append(issued, access)
  BY DEF Refresh
<1> HIDE DEF access
<1>4. /\ issued' \in Seq(TokenRecords) /\ Len(issued') = Len(issued) + 1
      /\ \A t \in Tokens : issued'[t] = issued[t]
      /\ issued'[Len(issued) + 1] = access
  BY <1>1, <1>2, <1>3 DEF Tokens
<1>5. \A t \in Tokens' \ Tokens : t = Len(issued) + 1
  BY <1>2, <1>4 DEF Tokens
<1> QED BY <1>1, <1>2, <1>4, <1>5, BoundsAssumption DEF Issues

\* Issuing tokens disturbs nothing that was said of the earlier ones.
LEMMA IssuingKeeps ==
  ASSUME SessionIInv, Issues, UNCHANGED <<clocks, blacklist, revoked>>
  PROVE  /\ issued' \in Seq(TokenRecords) /\ Len(issued') <= MaxTokens
         /\ revoked' \subseteq Tokens'
         /\ Tokens \subseteq Tokens'
         /\ WholeLives' /\ Held'
<1>0. issued \in Seq(TokenRecords) /\ revoked \subseteq Tokens
  BY DEF SessionIInv, TypeOK, TokenRecords
<1>1. Tokens \subseteq Tokens'
  BY <1>0, BoundsAssumption DEF Issues, Tokens
<1>2. WholeLives'
  <2> SUFFICES ASSUME NEW t \in Tokens'
               PROVE  issued'[t].exp + Skew + SECOND > issued'[t].born + Life(issued'[t].type)
    BY DEF WholeLives, Life
  <2>1. CASE t \in Tokens
    BY <2>1 DEF SessionIInv, WholeLives, Issues
  <2>2. CASE t \notin Tokens
    BY <2>2 DEF Issues
  <2> QED BY <2>1, <2>2
<1>3. Held'
  BY <1>0 DEF SessionIInv, Held, Outlasted, Issues, clocks
<1> QED BY <1>0, <1>1, <1>2, <1>3 DEF Issues
-----------------------------------------------------------------------------
(***************************************************************************)
(* The steps                                                               *)
(***************************************************************************)
\* A step of one request, in which no time passes.
LEMMA OneCall ==
  ASSUME SessionIInv, NEW r \in Requests,
         \A q \in Requests \ {r} : call'[q] = call[q],
         UNCHANGED now, Tokens \subseteq Tokens',
         Presents(r)', Blind(r)'
  PROVE  Presented' /\ OnlyBlind'
<1>1. ASSUME NEW q \in Requests, q # r
      PROVE  Presents(q)' /\ Blind(q)'
  <2>1. call'[q] = call[q] /\ Presents(q) /\ Blind(q)
    BY <1>1 DEF SessionIInv, Presented, OnlyBlind
  <2> QED BY <2>1 DEF Presents, Blind
<1> QED BY <1>1 DEF Presented, OnlyBlind

\* ... that leaves the tokens and the blacklist alone.
LEMMA CallOnly ==
  ASSUME SessionIInv, NEW r \in Requests,
         UNCHANGED <<clocks, issued, blacklist, revoked>>,
         call' \in [Requests -> Calls],
         \A q \in Requests \ {r} : call'[q] = call[q],
         Presents(r)', Blind(r)'
  PROVE  SessionIInv'
<1>1. Presented' /\ OnlyBlind'
  BY OneCall DEF clocks, Tokens
<1>2. TypeOK' /\ WholeLives' /\ Held'
  BY DEF SessionIInv, TypeOK, WholeLives, Life, Held, Outlasted, clocks, Tokens
<1> QED BY <1>1, <1>2 DEF SessionIInv

LEMMA Start == Init => SessionIInv
<1> SUFFICES ASSUME Init PROVE SessionIInv
  OBVIOUS
<1>1. /\ now = 0 /\ issued = <<>> /\ revoked = {}
      /\ call \in [Requests -> {Fresh(s) : s \in Servers}]
  BY DEF Init
<1>2. call \in [Requests -> Calls]
  BY <1>1, FreshType
<1>3. TypeOK
  BY <1>1, <1>2, BoundsAssumption DEF TypeOK, Init, Tokens
<1>4. \A r \in Requests : call[r].at = "idle" /\ ~call[r].late
  BY <1>1 DEF Fresh
<1>5. Presented /\ OnlyBlind
  BY <1>4 DEF Presented, Presents, Presenting, OnlyBlind, Blind
<1>6. WholeLives /\ Held
  BY <1>1 DEF WholeLives, Held, Tokens
<1> QED BY <1>3, <1>5, <1>6 DEF SessionIInv

LEMMA TickStep ==
  ASSUME SessionIInv, Tick
  PROVE  SessionIInv'
<1>1. /\ now' = now + 1 /\ now < MaxTime /\ now \in Nat
      /\ UNCHANGED <<offset, issued, blacklist, call, revoked>>
  BY BoundsAssumption DEF Tick, SessionIInv, TypeOK
<1>2. TypeOK'
  BY <1>1, BoundsAssumption DEF SessionIInv, TypeOK, Tokens
<1>3. WholeLives'
  BY <1>1 DEF SessionIInv, WholeLives, Life, Tokens
<1>4. Presented'
  <2> SUFFICES ASSUME NEW r \in Requests PROVE Presents(r)'
    BY DEF Presented
  <2>1. Presents(r) /\ call[r].read \in Int
    BY DEF SessionIInv, Presented, TypeOK, Calls
  <2> QED BY <1>1, <2>1, LeewayAssumption DEF Presents, Tokens
<1>5. Held'
  <2> SUFFICES ASSUME NEW t \in revoked PROVE Outlasted(t)'
    BY <1>1 DEF Held
  <2>1. Outlasted(t) /\ t \in Tokens /\ TypeOK
    BY DEF SessionIInv, Held, TypeOK
  <2>2. issued[t].exp \in Int /\ blacklist[t] \in Nat
    BY <2>1, TokenType
  <2> QED BY <1>1, <2>1, <2>2, LeewayAssumption, SecondAssumption DEF Outlasted
<1>6. OnlyBlind'
  BY <1>1 DEF SessionIInv, OnlyBlind, Blind
<1> QED BY <1>2, <1>3, <1>4, <1>5, <1>6 DEF SessionIInv

LEMMA LoginStep ==
  ASSUME SessionIInv, NEW s \in Servers, Login(s)
  PROVE  SessionIInv'
<1>1. Issues /\ UNCHANGED <<clocks, blacklist, call, revoked>>
  BY LoginIssues DEF SessionIInv, Login
<1>2. /\ issued' \in Seq(TokenRecords) /\ Len(issued') <= MaxTokens
      /\ revoked' \subseteq Tokens' /\ Tokens \subseteq Tokens'
      /\ WholeLives' /\ Held'
  BY <1>1, IssuingKeeps
<1>3. TypeOK'
  BY <1>1, <1>2 DEF SessionIInv, TypeOK, TokenRecords, clocks
<1>4. Presented' /\ OnlyBlind'
  BY <1>1, <1>2 DEF SessionIInv, Presented, Presents, OnlyBlind, Blind, clocks
<1> QED BY <1>2, <1>3, <1>4 DEF SessionIInv

LEMMA RefreshStep ==
  ASSUME SessionIInv, NEW r \in Requests, Refresh(r)
  PROVE  SessionIInv'
<1>1. Issues /\ LetIn(r) /\ UNCHANGED <<clocks, blacklist, revoked>>
  BY RefreshIssues DEF SessionIInv, Refresh
<1>2. /\ issued' \in Seq(TokenRecords) /\ Len(issued') <= MaxTokens
      /\ revoked' \subseteq Tokens' /\ Tokens \subseteq Tokens'
      /\ WholeLives' /\ Held'
  BY <1>1, IssuingKeeps
<1>3. /\ call' \in [Requests -> Calls] /\ call'[r].at = "accepted"
      /\ call'[r].late = call[r].late /\ call'[r].blind = call[r].blind
      /\ \A q \in Requests \ {r} : call'[q] = call[q]
  BY <1>1, LetInType DEF SessionIInv
<1>4. TypeOK'
  BY <1>1, <1>2, <1>3 DEF SessionIInv, TypeOK, TokenRecords, clocks
<1>5. Presents(r)' /\ Blind(r)'
  BY <1>3 DEF SessionIInv, OnlyBlind, Presents, Presenting, Blind
<1>6. Presented' /\ OnlyBlind'
  BY <1>1, <1>2, <1>3, <1>5, OneCall DEF clocks
<1> QED BY <1>2, <1>4, <1>6 DEF SessionIInv

LEMMA PresentStep ==
  ASSUME SessionIInv, NEW r \in Requests, Present(r)
  PROVE  SessionIInv'
<1>1. PICK t \in Tokens, refresh \in BOOLEAN :
        call' = [call EXCEPT ![r].at = "ask", ![r].token = t, ![r].refresh = refresh]
  BY DEF Present
<1>2. call[r] \in Calls /\ t \in 0..MaxTokens /\ "ask" \in Steps
  BY BoundsAssumption DEF SessionIInv, TypeOK, Tokens, Steps
<1>3. call \in [Requests -> Calls] /\ UNCHANGED <<clocks, issued, blacklist, revoked>>
  BY DEF SessionIInv, TypeOK, Present
<1> DEFINE asking == [call[r] EXCEPT !.at = "ask", !.token = t, !.refresh = refresh]
<1>4. /\ asking \in Calls /\ asking.at = "ask" /\ asking.token = t
      /\ asking.late = call[r].late /\ asking.blind = call[r].blind
  BY <1>2 DEF Calls
<1>5. call' = [call EXCEPT ![r] = asking]
  BY <1>1, <1>3
<1> HIDE DEF asking
<1>6. /\ call' \in [Requests -> Calls] /\ call'[r] = asking
      /\ \A q \in Requests \ {r} : call'[q] = call[q]
  BY <1>3, <1>4, <1>5
<1>7. Presents(r)' /\ Blind(r)'
  BY <1>3, <1>4, <1>6 DEF SessionIInv, OnlyBlind, Presents, Blind, Tokens
<1> QED BY <1>3, <1>6, <1>7, CallOnly

LEMMA RevokedIsHeld ==
  ASSUME SessionIInv, NEW t \in revoked, ~LastSecond(t)
  PROVE  Blacklisted(t)
<1>1. Outlasted(t) /\ t \in Tokens
  BY DEF SessionIInv, Held, TypeOK
<1>2. issued[t].exp \in Int /\ blacklist[t] \in Nat /\ now \in Nat
  BY <1>1, TokenType DEF SessionIInv
<1> QED
  BY <1>1, <1>2, LeewayAssumption, SecondAssumption DEF Outlasted, LastSecond, Blacklisted

LEMMA AskStep ==
  ASSUME SessionIInv, NEW r \in Requests, AskBlacklist(r)
  PROVE  SessionIInv'
<1> DEFINE t == call[r].token
           late == t \in revoked /\ ~LastSecond(t)
<1>0. /\ UNCHANGED <<clocks, issued, blacklist, revoked>>
      /\ call \in [Requests -> Calls] /\ call[r] \in Calls /\ TypeOK
      /\ call[r].at = "ask"
  BY DEF AskBlacklist, SessionIInv, TypeOK
<1>1. CASE End(r, "refused")
  <2>1. "refused" \in Ended
    BY DEF Ended
  <2>2. /\ call' \in [Requests -> Calls]
        /\ call'[r].at = "refused" /\ ~call'[r].late
        /\ \A q \in Requests \ {r} : call'[q] = call[q]
    BY <1>0, <1>1, <2>1, EndType
  <2>3. Presents(r)' /\ Blind(r)'
    BY <2>2 DEF Presents, Presenting, Blind
  <2> QED BY <1>0, <2>2, <2>3, CallOnly
<1>2. CASE /\ ~Blacklisted(t)
           /\ call' = [call EXCEPT ![r].at = "decode", ![r].late = late]
  <2>1. late = FALSE
    BY <1>2, RevokedIsHeld
  <2> HIDE DEF late
  <2> DEFINE decoding == [call[r] EXCEPT !.at = "decode", !.late = late]
  <2>2. /\ decoding \in Calls /\ decoding.at = "decode" /\ decoding.token = call[r].token
        /\ ~decoding.late
    BY <1>0, <2>1 DEF Calls, Steps
  <2>3. call' = [call EXCEPT ![r] = decoding]
    BY <1>0, <1>2
  <2> HIDE DEF decoding
  <2>4. /\ call' \in [Requests -> Calls] /\ call'[r] = decoding
        /\ \A q \in Requests \ {r} : call'[q] = call[q]
    BY <1>0, <2>2, <2>3
  <2>5. Presents(r)' /\ Blind(r)'
    BY <1>0, <2>2, <2>4 DEF SessionIInv, Presented, Presents, Presenting, Blind, Tokens
  <2> QED BY <1>0, <2>4, <2>5, CallOnly
<1>3. CASE call' = [call EXCEPT ![r].at = "decode", ![r].late = late, ![r].blind = TRUE]
  <2>1. late \in BOOLEAN
    OBVIOUS
  <2> HIDE DEF late
  <2> DEFINE decoding == [call[r] EXCEPT !.at = "decode", !.late = late, !.blind = TRUE]
  <2>2. /\ decoding \in Calls /\ decoding.at = "decode" /\ decoding.token = call[r].token
        /\ decoding.blind
    BY <1>0, <2>1 DEF Calls, Steps
  <2>3. call' = [call EXCEPT ![r] = decoding]
    BY <1>0, <1>3
  <2> HIDE DEF decoding
  <2>4. /\ call' \in [Requests -> Calls] /\ call'[r] = decoding
        /\ \A q \in Requests \ {r} : call'[q] = call[q]
    BY <1>0, <2>2, <2>3
  <2>5. Presents(r)' /\ Blind(r)'
    BY <1>0, <2>2, <2>4 DEF SessionIInv, Presented, Presents, Presenting, Blind, Tokens
  <2> QED BY <1>0, <2>4, <2>5, CallOnly
<1> QED BY <1>1, <1>2, <1>3 DEF AskBlacklist

LEMMA RefuseStep ==
  ASSUME SessionIInv, NEW r \in Requests, Refuse(r)
  PROVE  SessionIInv'
<1>1. /\ End(r, "refused") /\ UNCHANGED <<clocks, issued, blacklist, revoked>>
      /\ TypeOK /\ "refused" \in Ended
  BY DEF Refuse, SessionIInv, Ended
<1>2. /\ call' \in [Requests -> Calls]
      /\ call'[r].at = "refused" /\ ~call'[r].late
      /\ \A q \in Requests \ {r} : call'[q] = call[q]
  BY <1>1, EndType
<1>3. Presents(r)' /\ Blind(r)'
  BY <1>2 DEF Presents, Presenting, Blind
<1> QED BY <1>1, <1>2, <1>3, CallOnly

LEMMA AcceptStep ==
  ASSUME SessionIInv, NEW r \in Requests, Accept(r)
  PROVE  SessionIInv'
<1>1. LetIn(r) /\ UNCHANGED <<clocks, issued, blacklist, revoked>> /\ TypeOK
  BY DEF Accept, SessionIInv
<1>2. /\ call' \in [Requests -> Calls] /\ call'[r].at = "accepted"
      /\ call'[r].late = call[r].late /\ call'[r].blind = call[r].blind
      /\ \A q \in Requests \ {r} : call'[q] = call[q]
  BY <1>1, LetInType
<1>3. Presents(r)' /\ Blind(r)'
  BY <1>2 DEF SessionIInv, OnlyBlind, Presents, Presenting, Blind
<1> QED BY <1>1, <1>2, <1>3, CallOnly

LEMMA LogoutBeginStep ==
  ASSUME SessionIInv, NEW r \in Requests, LogoutBegin(r)
  PROVE  SessionIInv'
<1>0. /\ UNCHANGED <<clocks, issued, blacklist, revoked>> /\ TypeOK
      /\ call \in [Requests -> Calls] /\ call[r] \in Calls /\ call[r].server \in Servers
  BY DEF LogoutBegin, SessionIInv, TypeOK, Calls
<1> DEFINE read == Clock(call[r].server)
<1>1. PICK t \in Tokens, c \in Tokens \cup {0} :
        call' = [call EXCEPT ![r].at = "access", ![r].token = t, ![r].cookie = c,
                             ![r].read = read]
  BY DEF LogoutBegin
<1>2. read \in Int /\ read <= now + Skew
  BY <1>0, ClockBounds
<1> HIDE DEF read
<1>3. t \in 0..MaxTokens /\ c \in 0..MaxTokens /\ "access" \in Steps
  BY <1>0, BoundsAssumption DEF TypeOK, Tokens, Steps
<1> DEFINE leaving == [call[r] EXCEPT !.at = "access", !.token = t, !.cookie = c, !.read = read]
<1>4. /\ leaving \in Calls /\ leaving.at = "access" /\ leaving.token = t
      /\ leaving.cookie = c /\ leaving.read = read
      /\ leaving.late = call[r].late /\ leaving.blind = call[r].blind
  BY <1>0, <1>2, <1>3 DEF Calls
<1>5. call' = [call EXCEPT ![r] = leaving]
  BY <1>0, <1>1
<1> HIDE DEF leaving
<1>6. /\ call' \in [Requests -> Calls] /\ call'[r] = leaving
      /\ \A q \in Requests \ {r} : call'[q] = call[q]
  BY <1>0, <1>4, <1>5
<1>7. Presents(r)'
  BY <1>0, <1>2, <1>4, <1>6 DEF Presents, Tokens, clocks
<1>8. Blind(r)'
  BY <1>4, <1>6 DEF SessionIInv, OnlyBlind, Blind
<1> QED BY <1>0, <1>6, <1>7, <1>8, CallOnly

\* The entry that a logout writes lasts as long as the token by the clock it
\* read, less the part of a second, and that clock was not too far ahead.
LEMMA BlacklistHolds ==
  ASSUME SessionIInv, NEW r \in Requests, NEW t \in Tokens,
         NEW read \in Int, read <= now + Skew,
         UNCHANGED <<clocks, issued>>,
         Blacklist(t, r, SecondsLeft(t, read))
  PROVE  /\ blacklist' \in [1..MaxTokens -> Nat]
         /\ revoked' \subseteq Tokens'
         /\ Held'
<1> DEFINE left == SecondsLeft(t, read)
           seconds == left * SECOND
<1>0. /\ blacklist \in [1..MaxTokens -> Nat] /\ revoked \subseteq Tokens /\ TypeOK
      /\ call[r].server \in Servers
  BY DEF SessionIInv, TypeOK, Calls
<1>1. now \in Nat /\ issued[t].exp \in Int /\ t \in 1..MaxTokens
  BY <1>0, TokenType
<1>2. left \in Int /\ seconds \in Int /\ issued[t].exp - read < seconds + SECOND
  <2>1. issued[t].exp - read \in Int
    BY <1>1
  <2> QED BY <2>1, Seconds DEF SecondsLeft
<1>3. left > 0 => seconds > 0
  BY <1>2, SecondAssumption
<1>4. left <= 0 => seconds <= 0
  BY <1>2, SecondAssumption
<1>5. Tokens' = Tokens /\ now' = now /\ issued' = issued
  BY DEF Tokens, clocks
<1>6. Blacklist(t, r, left)
  OBVIOUS
<1>7. Clock(call[r].server) \in Int /\ Clock(call[r].server) <= now + Skew
  BY <1>0, ClockBounds
<1>8. ASSUME Decodes(t, call[r].server), left > 0,
             blacklist' = [blacklist EXCEPT ![t] = now + left * SECOND],
             revoked' = revoked \cup {t}
      PROVE  /\ blacklist' \in [1..MaxTokens -> Nat] /\ revoked' \subseteq Tokens /\ Held'
  <2>1. blacklist' = [blacklist EXCEPT ![t] = now + seconds]
    BY <1>8
  <2> HIDE DEF left, seconds
  <2>2. now + seconds \in Nat /\ now + seconds + Skew + SECOND > issued[t].exp
    BY <1>1, <1>2, <1>3, <1>8, LeewayAssumption, SecondAssumption
  <2>3. blacklist' \in [1..MaxTokens -> Nat] /\ blacklist'[t] + Skew + SECOND > issued[t].exp
    BY <1>0, <1>1, <2>1, <2>2
  <2>4. Outlasted(t)'
    BY <1>5, <2>3 DEF Outlasted
  <2>5. ASSUME NEW u \in revoked, u # t
        PROVE  Outlasted(u)'
    <3>1. blacklist'[u] = blacklist[u] /\ Outlasted(u)
      BY <1>0, <2>1, <2>5 DEF SessionIInv, Held, TypeOK, Tokens
    <3> QED BY <1>5, <3>1 DEF Outlasted
  <2> QED BY <1>0, <1>1, <1>8, <2>3, <2>4, <2>5 DEF Held
<1>9. ASSUME ~Decodes(t, call[r].server) \/ left <= 0,
             revoked' = revoked \cup {t}, UNCHANGED blacklist
      PROVE  /\ blacklist' \in [1..MaxTokens -> Nat] /\ revoked' \subseteq Tokens /\ Held'
  <2> HIDE DEF left, seconds
  <2>1. now + Skew + SECOND >= issued[t].exp
    <3>1. CASE ~Decodes(t, call[r].server)
      BY <1>0, <1>1, <1>7, <3>1, LeewayAssumption, SecondAssumption DEF Decodes
    <3>2. CASE left <= 0
      BY <1>1, <1>2, <1>4, <3>2, LeewayAssumption, SecondAssumption
    <3> QED BY <1>9, <3>1, <3>2
  <2>2. \A u \in revoked \cup {t} : Outlasted(u)
    BY <2>1 DEF SessionIInv, Held, Outlasted
  <2> QED BY <1>0, <1>1, <1>5, <1>9, <2>2 DEF Held, Outlasted
<1>10. ASSUME UNCHANGED <<blacklist, revoked>>
       PROVE  /\ blacklist' \in [1..MaxTokens -> Nat] /\ revoked' \subseteq Tokens /\ Held'
  BY <1>0, <1>5, <1>10 DEF SessionIInv, Held, Outlasted
<1> HIDE DEF left, seconds
<1> QED BY <1>5, <1>6, <1>8, <1>9, <1>10 DEF Blacklist

LEMMA LogoutAccessStep ==
  ASSUME SessionIInv, NEW r \in Requests, LogoutAccess(r)
  PROVE  SessionIInv'
<1>0. /\ UNCHANGED <<clocks, issued>> /\ TypeOK
      /\ call \in [Requests -> Calls] /\ call[r] \in Calls /\ call[r].at = "access"
  BY DEF LogoutAccess, SessionIInv, TypeOK
<1>1. /\ call[r].token \in Tokens /\ call[r].read \in Int /\ call[r].read <= now + Skew
      /\ call[r].cookie \in Tokens \cup {0}
  BY <1>0 DEF SessionIInv, Presented, Presents, Presenting, Calls
<1>2. Blacklist(call[r].token, r, SecondsLeft(call[r].token, call[r].read))
  BY DEF LogoutAccess
<1>3. blacklist' \in [1..MaxTokens -> Nat] /\ revoked' \subseteq Tokens' /\ Held'
  BY <1>0, <1>1, <1>2, BlacklistHolds
<1>4. /\ call' \in [Requests -> Calls]
      /\ \A q \in Requests \ {r} : call'[q] = call[q]
      /\ Presents(r)' /\ Blind(r)'
  <2>1. CASE End(r, "done")
    <3>1. "done" \in Ended
      BY DEF Ended
    <3>2. /\ call' \in [Requests -> Calls]
          /\ call'[r].at = "done" /\ ~call'[r].late
          /\ \A q \in Requests \ {r} : call'[q] = call[q]
      BY <1>0, <2>1, <3>1, EndType
    <3> QED BY <3>2 DEF Presents, Presenting, Blind
  <2>2. CASE call[r].cookie # 0 /\ call' = [call EXCEPT ![r].at = "cookie"]
    <3> DEFINE going == [call[r] EXCEPT !.at = "cookie"]
    <3>1. /\ going \in Calls /\ going.at = "cookie" /\ going.token = call[r].token
          /\ going.cookie = call[r].cookie /\ going.read = call[r].read
          /\ going.late = call[r].late /\ going.blind = call[r].blind
      BY <1>0 DEF Calls, Steps
    <3>2. call' = [call EXCEPT ![r] = going]
      BY <1>0, <2>2
    <3> HIDE DEF going
    <3>3. /\ call' \in [Requests -> Calls] /\ call'[r] = going
          /\ \A q \in Requests \ {r} : call'[q] = call[q]
      BY <1>0, <3>1, <3>2
    <3>4. Presents(r)'
      BY <1>0, <1>1, <2>2, <3>1, <3>3 DEF Presents, Tokens, clocks
    <3>5. Blind(r)'
      BY <3>1, <3>3 DEF SessionIInv, OnlyBlind, Blind
    <3> QED BY <3>3, <3>4, <3>5
  <2> QED BY <2>1, <2>2 DEF LogoutAccess
<1>5. Presented' /\ OnlyBlind'
  BY <1>0, <1>4, OneCall DEF Tokens, clocks
<1>6. TypeOK' /\ WholeLives'
  BY <1>0, <1>3, <1>4 DEF SessionIInv, TypeOK, WholeLives, Life, Tokens, clocks
<1> QED BY <1>3, <1>5, <1>6 DEF SessionIInv

LEMMA LogoutCookieStep ==
  ASSUME SessionIInv, NEW r \in Requests, LogoutCookie(r)
  PROVE  SessionIInv'
<1>0. /\ UNCHANGED <<clocks, issued>> /\ TypeOK /\ End(r, "done") /\ "done" \in Ended
      /\ call[r] \in Calls /\ call[r].at = "cookie"
  BY DEF LogoutCookie, SessionIInv, TypeOK, Ended
<1>1. call[r].cookie \in Tokens /\ call[r].read \in Int /\ call[r].read <= now + Skew
  BY <1>0 DEF SessionIInv, Presented, Presents, Calls
<1>2. Blacklist(call[r].cookie, r, SecondsLeft(call[r].cookie, call[r].read))
  BY DEF LogoutCookie
<1>3. blacklist' \in [1..MaxTokens -> Nat] /\ revoked' \subseteq Tokens' /\ Held'
  BY <1>0, <1>1, <1>2, BlacklistHolds
<1>4. /\ call' \in [Requests -> Calls]
      /\ call'[r].at = "done" /\ ~call'[r].late
      /\ \A q \in Requests \ {r} : call'[q] = call[q]
  BY <1>0, EndType
<1>5. Presents(r)' /\ Blind(r)'
  BY <1>4 DEF Presents, Presenting, Blind
<1>6. Presented' /\ OnlyBlind'
  BY <1>0, <1>4, <1>5, OneCall DEF Tokens, clocks
<1>7. TypeOK' /\ WholeLives'
  BY <1>0, <1>3, <1>4 DEF SessionIInv, TypeOK, WholeLives, Life, Tokens, clocks
<1> QED BY <1>3, <1>6, <1>7 DEF SessionIInv

LEMMA Steady ==
  SessionIInv /\ [Next]_vars => SessionIInv'
<1> SUFFICES ASSUME SessionIInv, [Next]_vars PROVE SessionIInv'
  OBVIOUS
<1>1. CASE UNCHANGED vars
  <2>1. UNCHANGED <<now, offset, issued, blacklist, call, revoked>>
    BY <1>1 DEF vars, clocks
  <2> QED
    BY <2>1 DEF SessionIInv, TypeOK, WholeLives, Life, Presented, Presents, Held, Outlasted,
                OnlyBlind, Blind, Tokens
<1>2. CASE Tick
  BY <1>2, TickStep
<1>3. ASSUME NEW s \in Servers, Login(s) PROVE SessionIInv'
  BY <1>3, LoginStep
<1>4. ASSUME NEW r \in Requests, Present(r) PROVE SessionIInv'
  BY <1>4, PresentStep
<1>5. ASSUME NEW r \in Requests, AskBlacklist(r) PROVE SessionIInv'
  BY <1>5, AskStep
<1>6. ASSUME NEW r \in Requests, Refuse(r) PROVE SessionIInv'
  BY <1>6, RefuseStep
<1>7. ASSUME NEW r \in Requests, Accept(r) PROVE SessionIInv'
  BY <1>7, AcceptStep
<1>8. ASSUME NEW r \in Requests, Refresh(r) PROVE SessionIInv'
  BY <1>8, RefreshStep
<1>9. ASSUME NEW r \in Requests, LogoutBegin(r) PROVE SessionIInv'
  BY <1>9, LogoutBeginStep
<1>10. ASSUME NEW r \in Requests, LogoutAccess(r) PROVE SessionIInv'
  BY <1>10, LogoutAccessStep
<1>11. ASSUME NEW r \in Requests, LogoutCookie(r) PROVE SessionIInv'
  BY <1>11, LogoutCookieStep
<1> QED
  BY <1>1, <1>2, <1>3, <1>4, <1>5, <1>6, <1>7, <1>8, <1>9, <1>10, <1>11 DEF Next
-----------------------------------------------------------------------------
(***************************************************************************)
(* The theorems                                                            *)
(***************************************************************************)
LEMMA SessionIsSteady == Spec => []SessionIInv
BY Start, Steady, PTL DEF Spec

\* Type correctness: a token that is presented or blacklisted was issued.
THEOREM SessionTyped == Spec => []TypeOK
<1>1. SessionIInv => TypeOK
  BY DEF SessionIInv
<1> QED BY SessionIsSteady, <1>1, PTL

\* With any number of servers and logouts, a request gets in with a revoked
\* token only if Redis did not answer it, or in the token's last second (logout,
\* is_token_blacklisted).
THEOREM RevokedIsOut == Spec => []RevokedIsRefused
<1>1. SessionIInv => RevokedIsRefused
  BY DEF SessionIInv, OnlyBlind, Blind, RevokedIsRefused
<1> QED BY SessionIsSteady, <1>1, PTL

\* Two clocks that are off by the skew, in opposite directions, and the part of
\* a second that is cut off are covered by the leeway of decode_token.
THEOREM NobodyIsOutEarly == Spec => []LeewayCoversSkew
<1>1. ASSUME SessionIInv PROVE LeewayCoversSkew
  <2> SUFFICES ASSUME NEW t \in Tokens, now < issued[t].born + Life(issued[t].type),
                      NEW s \in Servers
               PROVE  issued[t].exp > Clock(s) - Leeway
    BY DEF LeewayCoversSkew, Decodes
  <2>1. issued[t].exp + Skew + SECOND > issued[t].born + Life(issued[t].type)
    BY <1>1 DEF SessionIInv, WholeLives
  <2>2. /\ issued[t].exp \in Int /\ issued[t].born \in Nat /\ now \in Nat
        /\ issued[t].type \in Types
    BY <1>1, TokenType DEF SessionIInv
  <2>3. Life(issued[t].type) \in Nat
    BY <2>2, LifeType
  <2>4. Clock(s) \in Int /\ Clock(s) <= now + Skew
    BY <1>1, ClockBounds DEF SessionIInv
  <2> QED BY <2>1, <2>2, <2>3, <2>4, LeewayAssumption, SecondAssumption
<1> QED BY SessionIsSteady, <1>1, PTL
=============================================================================
