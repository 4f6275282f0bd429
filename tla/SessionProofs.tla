---------------------------- MODULE SessionProofs ----------------------------
(***************************************************************************)
(* Proofs about Sessions, for any number of requests: the types, that no   *)
(* request waits for ever, and that a user stays signed in.                *)
(*                                                                         *)
(* The argument: as long as nothing went wrong, a token that the page has  *)
(* comes with a refresh token that is in Redis, be it the cookie's or the  *)
(* one that the rotation has just made; and when the refresh is refused,   *)
(* the cookie is good for nothing, so that the page that is being left     *)
(* cannot get another token before it is gone.                             *)
(***************************************************************************)
EXTENDS Sessions, TLAPS

\* The flag of the page and the handler on the server go together.
RefreshInStep ==
  /\ isRefreshing <=> handler.step # "none"
  /\ handler.step = "none" => handler = NoHandler

\* A logout is sent by a page that has no other under way.
OneLogout == \E t \in RefreshTokens : logouts \subseteq {t}

\* A page with a token can renew it, and is not being left.
Renewable ==
  localToken # "none" =>
    /\ ~leaving
    /\ handler.step \in {"none", "get"} => cookie \in redis
    /\ handler.step = "get" => handler.token = cookie
    /\ handler.step # "refused"

\* What a rotation finds, and what it hands out.
RotationSound ==
  /\ handler.step = "get" => cookie \in {handler.token, NoCookie}
  /\ handler.step = "issued" =>
       handler.token \in redis /\ handler.token \notin logouts \cup {cookie}
  /\ handler.step = "refused" => cookie \notin redis

\* A page that is being left will get no other token.
LeavingForGood ==
  leaving =>
    /\ localToken = "none" /\ cookie \notin redis
    /\ handler.step \in {"none", "get", "refused"}
    /\ handler.step = "get" => handler.token \notin redis

Untroubled ==
  session # "troubled" =>
    /\ Renewable /\ RotationSound /\ LeavingForGood
    /\ session = "kept" => localToken # "none" /\ page = "app"

SessionInv == SessionTypeOK /\ RefreshInStep /\ OneLogout /\ Untroubled

---------------------------------------------------------------------------
(* A refresh token that is free: there are four, one logout, the cookie    *)
(* and the one the handler holds.                                          *)

\* There is always a refresh token nobody keeps.
LEMMA FreshToken ==
  ASSUME SessionTypeOK, OneLogout
  PROVE  NewRefreshToken \in RefreshTokens /\ NewRefreshToken \notin logouts \cup {cookie, handler.token}
<1>1. PICK t \in RefreshTokens : logouts \subseteq {t}
  BY DEF OneLogout
<1>2. \E n \in RefreshTokens : n \notin {t, cookie, handler.token}
  BY DEF RefreshTokens
<1>3. \E n \in RefreshTokens : n \notin logouts \cup {cookie, handler.token}
  BY <1>1, <1>2
<1>4. QED
  BY <1>3 DEF NewRefreshToken

---------------------------------------------------------------------------
\* A request that carries no token has its type.
LEMMA WaitsType ==
  /\ Idle \in RequestStates
  /\ \A q \in RequestStates : Waits("denied", q.retry) \in RequestStates
  /\ \A state \in {"queued", "refreshing"} : Waits(state, TRUE) \in RequestStates
BY DEF Idle, Waits, RequestStates, AccessTokens

\* Every step keeps the types, and sends no second logout.
LEMMA TypesStay ==
  ASSUME SessionTypeOK, OneLogout, [SessionNext]_sessionVars
  PROVE  SessionTypeOK' /\ OneLogout'
<1> USE FreshToken DEF SessionTypeOK, OneLogout, AccessTokens
<1>1. CASE SubmitLogin
  BY <1>1 DEF SubmitLogin, TokensArrive, Store, RedisKeeps, serverVars, pageVars
<1>2. CASE CompleteTotp
  BY <1>2 DEF CompleteTotp, TokensArrive, Store, RedisKeeps, serverVars, pageVars
<1>3. CASE BackToLogin
  BY <1>3 DEF BackToLogin, serverVars, pageVars
<1>4. CASE OAuthCallback
  BY <1>4 DEF OAuthCallback, TokensArrive, Store, RedisKeeps, Idle, Waits, NoHandler, serverVars, pageVars, RequestStates
<1>5. CASE Logout
  BY <1>5 DEF Logout, serverVars, pageVars
<1>6. CASE LogoutHandled
  BY <1>6 DEF LogoutHandled, RedisKeeps, serverVars, pageVars
<1>7. CASE LoadPage
  BY <1>7 DEF LoadPage, RedisKeeps, Idle, Waits, NoHandler, serverVars, pageVars, RequestStates
<1>8. CASE TokenExpires
  BY <1>8 DEF TokenExpires, serverVars, pageVars, RequestStates
<1>9. ASSUME NEW w \in me, MeAnswers(w) PROVE SessionTypeOK' /\ OneLogout'
  BY <1>9 DEF MeAnswers, serverVars, pageVars
<1>10. ASSUME NEW w \in me, MeFails(w) PROVE SessionTypeOK' /\ OneLogout'
  BY <1>10 DEF MeFails, serverVars, pageVars
<1>11. ASSUME NEW r \in Requests, Send(r) PROVE SessionTypeOK' /\ OneLogout'
  BY <1>11 DEF Send, Sent, serverVars, pageVars, RequestStates
<1>12. ASSUME NEW r \in Requests, Answered(r) PROVE SessionTypeOK' /\ OneLogout'
  <2>1. requests' \in [Requests -> RequestStates]
    BY <1>12, WaitsType DEF Answered
  <2>2. QED
    BY <1>12, <2>1 DEF Answered, serverVars, pageVars
<1>13. ASSUME NEW r \in Requests, Denied(r) PROVE SessionTypeOK' /\ OneLogout'
  <2>1. requests' \in [Requests -> RequestStates]
    BY <1>13, WaitsType DEF Denied
  <2>2. isRefreshing' \in BOOLEAN
    BY <1>13 DEF Denied
  <2>3. handler' \in [step : {"none", "get", "delete", "set", "issued", "refused"},
                     token : RefreshTokens \cup {NoCookie}]
    <3>1. handler' \in {handler, [step |-> "get", token |-> cookie]}
      BY <1>13 DEF Denied
    <3>2. QED
      BY <3>1
  <2>4. QED
    BY <1>13, <2>1, <2>2, <2>3 DEF Denied, serverVars, pageVars
<1>14. CASE RefreshGet
  BY <1>14 DEF RefreshGet, serverVars, pageVars
<1>15. CASE RefreshDelete
  BY <1>15 DEF RefreshDelete, serverVars, pageVars
<1>16. CASE RefreshSet
  BY <1>16 DEF RefreshSet, Store, RedisKeeps, serverVars, pageVars
<1>17. CASE RefreshAnswers
  BY <1>17 DEF RefreshAnswers, RedisKeeps, NoHandler, Sent, serverVars, pageVars, RequestStates
<1>18. CASE RefreshRefused
  BY <1>18 DEF RefreshRefused, RedisKeeps, NoHandler, Idle, Waits, serverVars, pageVars, RequestStates
<1>19. CASE RefreshLost
  BY <1>19 DEF RefreshLost, serverVars, pageVars
<1>20. CASE UNCHANGED sessionVars
  BY <1>20 DEF sessionVars, serverVars, pageVars
<1>21. QED
  BY <1>1, <1>2, <1>3, <1>4, <1>5, <1>6, <1>7, <1>8, <1>9, <1>10, <1>11, <1>12, <1>13, <1>14, <1>15, <1>16, <1>17, <1>18, <1>19, <1>20 DEF SessionNext, Refresh

\* The flag of the page and the handler change together.
LEMMA StepsStay ==
  ASSUME SessionTypeOK, RefreshInStep, [SessionNext]_sessionVars
  PROVE  RefreshInStep'
<1> USE DEF SessionTypeOK, RefreshInStep, NoHandler
<1>1. CASE SubmitLogin
  BY <1>1 DEF SubmitLogin, serverVars, pageVars
<1>2. CASE CompleteTotp
  BY <1>2 DEF CompleteTotp, serverVars, pageVars
<1>3. CASE BackToLogin
  BY <1>3 DEF BackToLogin, serverVars, pageVars
<1>4. CASE OAuthCallback
  BY <1>4 DEF OAuthCallback, serverVars, pageVars
<1>5. CASE Logout
  BY <1>5 DEF Logout, serverVars, pageVars
<1>6. CASE LogoutHandled
  BY <1>6 DEF LogoutHandled, serverVars, pageVars
<1>7. CASE LoadPage
  BY <1>7 DEF LoadPage, serverVars, pageVars
<1>8. CASE TokenExpires
  BY <1>8 DEF TokenExpires, serverVars, pageVars
<1>9. ASSUME NEW w \in me, MeAnswers(w) PROVE RefreshInStep'
  BY <1>9 DEF MeAnswers, serverVars, pageVars
<1>10. ASSUME NEW w \in me, MeFails(w) PROVE RefreshInStep'
  BY <1>10 DEF MeFails, serverVars, pageVars
<1>11. ASSUME NEW r \in Requests, Send(r) PROVE RefreshInStep'
  BY <1>11 DEF Send, serverVars, pageVars
<1>12. ASSUME NEW r \in Requests, Answered(r) PROVE RefreshInStep'
  BY <1>12 DEF Answered, serverVars, pageVars
<1>13. ASSUME NEW r \in Requests, Denied(r) PROVE RefreshInStep'
  BY <1>13 DEF Denied, Waits, serverVars, pageVars
<1>14. CASE RefreshGet
  BY <1>14 DEF RefreshGet, serverVars, pageVars
<1>15. CASE RefreshDelete
  BY <1>15 DEF RefreshDelete, serverVars, pageVars
<1>16. CASE RefreshSet
  BY <1>16 DEF RefreshSet, serverVars, pageVars
<1>17. CASE RefreshAnswers
  BY <1>17 DEF RefreshAnswers, serverVars, pageVars
<1>18. CASE RefreshRefused
  BY <1>18 DEF RefreshRefused, serverVars, pageVars
<1>19. CASE RefreshLost
  BY <1>19 DEF RefreshLost, serverVars, pageVars
<1>20. CASE UNCHANGED sessionVars
  BY <1>20 DEF sessionVars, serverVars, pageVars
<1>21. QED
  BY <1>1, <1>2, <1>3, <1>4, <1>5, <1>6, <1>7, <1>8, <1>9, <1>10, <1>11, <1>12, <1>13, <1>14, <1>15, <1>16, <1>17, <1>18, <1>19, <1>20 DEF SessionNext, Refresh

\* While nothing goes wrong, whoever has a token can renew it.
LEMMA UntroubledStays ==
  ASSUME SessionInv, [SessionNext]_sessionVars
  PROVE  Untroubled'
<1> USE FreshToken DEF SessionInv, SessionTypeOK, AccessTokens, RefreshInStep, Untroubled, Renewable, RotationSound, LeavingForGood, NoHandler, NoCookie, RefreshTokens
<1>1. CASE SubmitLogin
  BY <1>1 DEF SubmitLogin, TokensArrive, Store, RedisKeeps, LoginForm, serverVars, pageVars
<1>2. CASE CompleteTotp
  BY <1>2 DEF CompleteTotp, TokensArrive, Store, RedisKeeps, TotpForm, serverVars, pageVars
<1>3. CASE BackToLogin
  BY <1>3 DEF BackToLogin, serverVars, pageVars
<1>4. CASE OAuthCallback
  BY <1>4 DEF OAuthCallback, TokensArrive, Store, RedisKeeps, serverVars, pageVars
<1>5. CASE Logout
  BY <1>5 DEF Logout, serverVars, pageVars
<1>6. CASE LogoutHandled
  BY <1>6 DEF LogoutHandled, RedisKeeps, serverVars, pageVars
<1>7. CASE LoadPage
  BY <1>7 DEF LoadPage, RedisKeeps, serverVars, pageVars
<1>8. CASE TokenExpires
  BY <1>8 DEF TokenExpires, serverVars, pageVars
<1>9. ASSUME NEW w \in me, MeAnswers(w) PROVE Untroubled'
  BY <1>9 DEF MeAnswers, serverVars, pageVars
<1>10. ASSUME NEW w \in me, MeFails(w) PROVE Untroubled'
  BY <1>10 DEF MeFails, serverVars, pageVars
<1>11. ASSUME NEW r \in Requests, Send(r) PROVE Untroubled'
  BY <1>11 DEF Send, serverVars, pageVars
<1>12. ASSUME NEW r \in Requests, Answered(r) PROVE Untroubled'
  BY <1>12 DEF Answered, serverVars, pageVars
<1>13. ASSUME NEW r \in Requests, Denied(r) PROVE Untroubled'
  BY <1>13 DEF Denied, Waits, serverVars, pageVars
<1>14. CASE RefreshGet
  BY <1>14 DEF RefreshGet, serverVars, pageVars
<1>15. CASE RefreshDelete
  BY <1>15 DEF RefreshDelete, serverVars, pageVars
<1>16. CASE RefreshSet
  BY <1>16 DEF RefreshSet, Store, RedisKeeps, serverVars, pageVars
<1>17. CASE RefreshAnswers
  BY <1>17 DEF RefreshAnswers, RedisKeeps, serverVars, pageVars
<1>18. CASE RefreshRefused
  BY <1>18 DEF RefreshRefused, RedisKeeps, serverVars, pageVars
<1>19. CASE RefreshLost
  BY <1>19 DEF RefreshLost, serverVars, pageVars
<1>20. CASE UNCHANGED sessionVars
  BY <1>20 DEF sessionVars, serverVars, pageVars
<1>21. QED
  BY <1>1, <1>2, <1>3, <1>4, <1>5, <1>6, <1>7, <1>8, <1>9, <1>10, <1>11, <1>12, <1>13, <1>14, <1>15, <1>16, <1>17, <1>18, <1>19, <1>20 DEF SessionNext, Refresh

---------------------------------------------------------------------------
\* The invariant holds in every reachable state.
LEMMA Inductive == SessionSpec => []SessionInv
<1>1. SessionInit => SessionInv
  <2>1. SessionInit => SessionTypeOK
    <3>1. SessionInit => requests \in [Requests -> RequestStates]
      BY WaitsType DEF SessionInit
    <3>2. SessionInit => handler \in [step : {"none", "get", "delete", "set", "issued", "refused"},
                                     token : RefreshTokens \cup {NoCookie}]
      BY DEF SessionInit, NoHandler
    <3>3. QED
      BY <3>1, <3>2 DEF SessionInit, SessionTypeOK, AccessTokens
  <2>2. SessionInit => RefreshInStep /\ OneLogout
    BY DEF SessionInit, RefreshInStep, OneLogout, NoHandler, RefreshTokens
  <2>3. SessionInit => Untroubled
    BY DEF SessionInit, Untroubled, Renewable, RotationSound, LeavingForGood, NoHandler
  <2>4. QED
    BY <2>1, <2>2, <2>3 DEF SessionInv
<1>2. SessionInv /\ [SessionNext]_sessionVars => SessionInv'
  BY TypesStay, StepsStay, UntroubledStays DEF SessionInv
<1>3. QED
  BY <1>1, <1>2, PTL DEF SessionSpec

(* Every variable of the model has its type, whatever requests overlap.    *)
THEOREM SessionTypesCorrect == SessionSpec => []SessionTypeOK
<1>1. SessionInv => SessionTypeOK
  BY DEF SessionInv
<1>2. QED
  BY <1>1, Inductive, PTL

(* However many requests meet an expired token at once, and whatever       *)
(* logout is still under way, a user who signed in stays so while nothing  *)
(* fails. The code: _isRefreshing and _refreshQueue in api.ts, and the     *)
(* rotation in refresh_access_token.                                       *)
THEOREM UsersStaySignedIn == SessionSpec => []StaysSignedIn
<1>1. SessionInv => StaysSignedIn
  BY DEF SessionInv, RefreshInStep, Untroubled, Renewable, StaysSignedIn, NoHandler
<1>2. QED
  BY <1>1, Inductive, PTL

\* A step that leaves a request queued keeps what will serve it.
LEMMA QueueStays ==
  ASSUME SessionInv, QueueIsServed, [SessionNext]_sessionVars
  PROVE  QueueIsServed'
<1> USE DEF QueueIsServed, SessionInv, SessionTypeOK, RequestStates, RefreshInStep, NoHandler, Idle, Waits, Sent
<1>1. CASE SubmitLogin
  BY <1>1 DEF SubmitLogin, serverVars, pageVars
<1>2. CASE CompleteTotp
  BY <1>2 DEF CompleteTotp, serverVars, pageVars
<1>3. CASE BackToLogin
  BY <1>3 DEF BackToLogin, serverVars, pageVars
<1>4. CASE OAuthCallback
  BY <1>4 DEF OAuthCallback, serverVars, pageVars
<1>5. CASE Logout
  BY <1>5 DEF Logout, serverVars, pageVars
<1>6. CASE LogoutHandled
  BY <1>6 DEF LogoutHandled, serverVars, pageVars
<1>7. CASE LoadPage
  BY <1>7 DEF LoadPage, serverVars, pageVars
<1>8. CASE TokenExpires
  BY <1>8 DEF TokenExpires, serverVars, pageVars
<1>9. ASSUME NEW w \in me, MeAnswers(w) PROVE QueueIsServed'
  BY <1>9 DEF MeAnswers, serverVars, pageVars
<1>10. ASSUME NEW w \in me, MeFails(w) PROVE QueueIsServed'
  BY <1>10 DEF MeFails, serverVars, pageVars
<1>11. ASSUME NEW r \in Requests, Send(r) PROVE QueueIsServed'
  BY <1>11 DEF Send, serverVars, pageVars
<1>12. ASSUME NEW r \in Requests, Answered(r) PROVE QueueIsServed'
  BY <1>12 DEF Answered, serverVars, pageVars
<1>13. ASSUME NEW r \in Requests, Denied(r) PROVE QueueIsServed'
  BY <1>13 DEF Denied, Waits, serverVars, pageVars
<1>14. CASE RefreshGet
  BY <1>14 DEF RefreshGet, serverVars, pageVars
<1>15. CASE RefreshDelete
  BY <1>15 DEF RefreshDelete, serverVars, pageVars
<1>16. CASE RefreshSet
  BY <1>16 DEF RefreshSet, serverVars, pageVars
<1>17. CASE RefreshAnswers
  BY <1>17 DEF RefreshAnswers, serverVars, pageVars
<1>18. CASE RefreshRefused
  BY <1>18 DEF RefreshRefused, serverVars, pageVars
<1>19. CASE RefreshLost
  BY <1>19 DEF RefreshLost, serverVars, pageVars
<1>20. CASE UNCHANGED sessionVars
  BY <1>20 DEF sessionVars, serverVars, pageVars
<1>21. QED
  BY <1>1, <1>2, <1>3, <1>4, <1>5, <1>6, <1>7, <1>8, <1>9, <1>10, <1>11, <1>12, <1>13, <1>14, <1>15, <1>16, <1>17, <1>18, <1>19, <1>20 DEF SessionNext, Refresh

(* While a request is queued a refresh is under way that will end the      *)
(* wait; or the refresh has failed, and the page is left with the request  *)
(* neither replayed nor rejected. The code: _refreshQueue in api.ts.       *)
THEOREM QueuesAreServed == SessionSpec => []QueueIsServed
<1>1. SessionInit => QueueIsServed
  BY DEF SessionInit, QueueIsServed, Idle, Waits
<1>2. SessionInv /\ QueueIsServed /\ [SessionNext]_sessionVars => QueueIsServed'
  BY QueueStays
<1>3. QED
  BY <1>1, <1>2, Inductive, PTL DEF SessionSpec
=============================================================================
