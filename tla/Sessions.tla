-------------------------------- MODULE Sessions --------------------------------
(***************************************************************************)
(* How a browser tab stays signed in: an access token in localStorage that *)
(* expires, a refresh token in a cookie that the server rotates in three   *)
(* calls to Redis, requests that wait for one refresh and are sent again,  *)
(* and the check of the token whenever the page is loaded.                 *)
(*                                                                         *)
(* An access token is "good" or, once it has expired, "old". Refresh       *)
(* tokens are numbers; one that nobody keeps any more is used again.       *)
(***************************************************************************)
EXTENDS Integers, FiniteSets

CONSTANT Requests        \* calls of the API that the pages make

NoCookie == 0
RefreshTokens == 1..4
AccessTokens == {"none", "good", "old"}

VARIABLES
  localToken,      \* localStorage
  cookie, redis,   \* the refresh_token cookie, and the refresh_token:* keys
  page, leaving,   \* "app" behind PrivateRoute or "login"; location.href was set
  challenge,       \* the login page asks for the code of the second factor
  me,              \* the /auth/me calls under way
  requests, isRefreshing,
  handler,         \* refresh_access_token on the server
  logouts,         \* the tokens of /auth/logout calls under way
  session          \* "kept" while a user is signed in and nothing went wrong

pageVars == <<page, leaving, challenge, me>>
serverVars == <<cookie, redis, handler>>
sessionVars == <<localToken, serverVars, pageVars, requests, isRefreshing, logouts, session>>

\* A request: what became of it, the token it carries, and its mark _retry.
RequestStates == [state : {"idle", "sent", "denied", "queued", "refreshing"},
                  token : AccessTokens, retry : BOOLEAN]
Waits(state, retry) == [state |-> state, token |-> "none", retry |-> retry]
Idle == Waits("idle", FALSE)
Sent(token, retry) == [state |-> "sent", token |-> token, retry |-> retry]
NoHandler == [step |-> "none", token |-> NoCookie]

SessionInit ==
  /\ localToken = "none" /\ cookie = NoCookie /\ redis = {}
  /\ page = "login" /\ leaving = FALSE /\ challenge = FALSE /\ me = {}
  /\ requests = [r \in Requests |-> Idle] /\ isRefreshing = FALSE
  /\ handler = NoHandler /\ logouts = {}
  /\ session = "none"

\* Keys of tokens that nobody will present any more are left out.
RedisKeeps(tokens) == redis' = tokens \cap (logouts' \cup {cookie', handler'.token})

\* A new token is stored, or Redis fails and it is handed out all the same.
NewRefreshToken == CHOOSE n \in RefreshTokens : n \notin logouts \cup {cookie, handler.token}
Store(token) ==
  \/ RedisKeeps(redis \cup {token}) /\ UNCHANGED session
  \/ RedisKeeps(redis \ {token}) /\ session' = "troubled"

-----------------------------------------------------------------------------
(* Signing in and out, loading a page.                                     *)

(* The refresh token that comes with an access token may miss Redis. What  *)
(* a refresh of the session before still does, is "lost" on the new one.   *)
TokensArrive(lost) ==
  /\ localToken' = "good" /\ cookie' = NewRefreshToken
  /\ IF lost THEN RedisKeeps(redis \cup {cookie'}) /\ session' = "troubled" ELSE Store(cookie')

\* The two forms of the login page; "loading" disables their buttons.
LoginForm == page = "login" /\ ~leaving /\ ~challenge /\ me \subseteq {"load"}
TotpForm == page = "login" /\ ~leaving /\ challenge /\ me \subseteq {"load"}

\* The password is right: the tokens come, or the second factor is asked for.
SubmitLogin ==
  /\ LoginForm
  /\ UNCHANGED <<handler, page, leaving, requests, isRefreshing, logouts>>
  /\ \/ me' = me \cup {"login"} /\ TokensArrive(isRefreshing) /\ UNCHANGED challenge
     \/ challenge' = TRUE /\ UNCHANGED <<localToken, cookie, redis, me, session>>

CompleteTotp ==
  /\ TotpForm
  /\ UNCHANGED <<handler, page, leaving, challenge, requests, isRefreshing, logouts>>
  /\ me' = me \cup {"login"} /\ TokensArrive(isRefreshing)

BackToLogin ==
  /\ page = "login" /\ challenge /\ challenge' = FALSE
  /\ UNCHANGED <<localToken, serverVars, page, leaving, me, requests, isRefreshing, logouts, session>>

(* The provider sends the browser back with a token: the page is loaded,   *)
(* and both the callback page and App ask who the user is.                 *)
OAuthCallback ==
  /\ page = "login" /\ localToken = "none"
  /\ me' = {"callback", "load"}
  /\ leaving' = FALSE /\ challenge' = FALSE
  /\ requests' = [r \in Requests |-> Idle] /\ isRefreshing' = FALSE /\ handler' = NoHandler
  /\ UNCHANGED <<page, logouts>>
  /\ TokensArrive(handler # NoHandler)

(* The user is known. PrivateRoute lets the page go on to the application, *)
(* if the token is still there.                                            *)
MeAnswers(w) ==
  /\ w \in me /\ localToken # "old"
  /\ me' = me \ {w}
  /\ IF localToken = "none" THEN UNCHANGED <<page, challenge, session>>
     ELSE /\ page' = "app" /\ challenge' = FALSE
          /\ session' = IF session = "none" THEN "kept" ELSE session
  /\ UNCHANGED <<localToken, serverVars, leaving, requests, isRefreshing, logouts>>

(* /auth/me is never sent again. A token that has expired, or any failure, *)
(* ends the session on a page load, even if a login has stored another one *)
(* meanwhile; after a login the token stays, and the callback page goes to *)
(* the login page, which asks once more.                                   *)
MeFails(w) ==
  /\ w \in me /\ session' = "troubled"
  /\ IF w = "load" THEN localToken' = "none" /\ page' = "login" ELSE UNCHANGED <<localToken, page>>
  /\ me' = (me \ {w}) \cup IF w = "callback" /\ page = "login" /\ localToken # "none" THEN {"load"} ELSE {}
  /\ UNCHANGED <<serverVars, leaving, challenge, requests, isRefreshing, logouts>>

\* logout: the local state goes at once, the call is not waited for.
Logout ==
  /\ page = "app" /\ logouts = {}
  /\ logouts' = {cookie} \ {NoCookie}
  /\ localToken' = "none" /\ page' = "login"
  /\ session' = IF session = "kept" THEN "none" ELSE session
  /\ UNCHANGED <<serverVars, leaving, challenge, me, requests, isRefreshing>>

\* The server drops the token it was sent, if it can, and the cookie.
LogoutHandled ==
  \E t \in logouts :
    /\ logouts' = logouts \ {t}
    /\ cookie' = NoCookie
    /\ session' = IF localToken = "none" THEN session ELSE "troubled"
    /\ UNCHANGED <<localToken, handler, pageVars, requests, isRefreshing>>
    /\ RedisKeeps(redis \ {t}) \/ RedisKeeps(redis)

(* The page is loaded again: the user does it, or location.href was set.   *)
(* Calls are abandoned, a rotation that was under way is lost with its     *)
(* answer, and the token is checked.                                       *)
LoadPage ==
  /\ leaving' = FALSE /\ challenge' = FALSE
  /\ page' = IF leaving \/ localToken = "none" THEN "login" ELSE page
  /\ me' = IF localToken = "none" THEN {} ELSE {"load"}
  /\ requests' = [r \in Requests |-> Idle] /\ isRefreshing' = FALSE
  /\ handler' = NoHandler
  /\ session' = IF handler = NoHandler /\ me \subseteq {"load"} THEN session ELSE "troubled"
  /\ UNCHANGED <<localToken, cookie, logouts>>
  /\ RedisKeeps(redis \ {handler.token}) \/ RedisKeeps(redis)

TokenExpires ==
  /\ localToken = "good" \/ \E r \in Requests : requests[r].token = "good"
  /\ localToken' = IF localToken = "good" THEN "old" ELSE localToken
  /\ requests' = [r \in Requests |->
       IF requests[r].token = "good" THEN [requests[r] EXCEPT !.token = "old"] ELSE requests[r]]
  /\ UNCHANGED <<serverVars, pageVars, isRefreshing, logouts, session>>

-----------------------------------------------------------------------------
(* Requests and the response interceptor.                                  *)

Send(r) ==
  /\ page = "app" /\ requests[r].state = "idle"
  /\ requests' = [requests EXCEPT ![r] = Sent(localToken, FALSE)]
  /\ UNCHANGED <<localToken, serverVars, pageVars, isRefreshing, logouts, session>>

\* The server lets a good token pass; the answer may be an error all the same.
Answered(r) ==
  /\ requests[r].state = "sent"
  /\ \/ requests' = [requests EXCEPT ![r] = Idle]
     \/ /\ requests[r].token # "good"
        /\ requests' = [requests EXCEPT ![r] = Waits("denied", requests[r].retry)]
  /\ UNCHANGED <<localToken, serverVars, pageVars, isRefreshing, logouts, session>>

\* Mutant: every request that is denied starts a refresh of its own.
DeniedRefreshes(r) ==
  /\ requests[r].state = "denied"
  /\ IF requests[r].retry
     THEN requests' = [requests EXCEPT ![r] = Idle] /\ UNCHANGED <<handler, redis, isRefreshing>>
     ELSE /\ requests' = [requests EXCEPT ![r] = Waits("refreshing", TRUE)]
          /\ isRefreshing' = TRUE
          /\ redis' = IF handler = NoHandler THEN redis ELSE redis \ {handler.token}
          /\ handler' = [step |-> "get", token |-> cookie]
  /\ UNCHANGED <<localToken, cookie, pageVars, logouts, session>>
(* 401: a request that was sent again fails; one that meets a refresh      *)
(* waits for it; otherwise a refresh starts, with the cookie of now.       *)
Denied(r) ==
  /\ requests[r].state = "denied"
  /\ IF requests[r].retry
     THEN requests' = [requests EXCEPT ![r] = Idle] /\ UNCHANGED <<handler, isRefreshing>>
     ELSE IF isRefreshing
     THEN /\ requests' = [requests EXCEPT ![r] = Waits("queued", TRUE)]
          /\ UNCHANGED <<handler, isRefreshing>>
     ELSE /\ requests' = [requests EXCEPT ![r] = Waits("refreshing", TRUE)]
          /\ isRefreshing' = TRUE
          /\ handler' = [step |-> "get", token |-> cookie]
  /\ UNCHANGED <<localToken, cookie, redis, pageVars, logouts, session>>

-----------------------------------------------------------------------------
(* refresh_access_token: the three calls to Redis.                         *)

RefreshGet ==
  /\ handler.step = "get"
  /\ \/ /\ handler' = [handler EXCEPT !.step = IF handler.token \in redis THEN "delete" ELSE "refused"]
        /\ UNCHANGED session
     \/ handler' = [handler EXCEPT !.step = "refused"] /\ session' = "troubled"
  /\ UNCHANGED <<localToken, cookie, redis, pageVars, requests, isRefreshing, logouts>>

RefreshDelete ==
  /\ handler.step = "delete"
  /\ redis' \in {redis \ {handler.token}, redis}
  /\ handler' = [handler EXCEPT !.step = "set"]
  /\ UNCHANGED <<localToken, cookie, pageVars, requests, isRefreshing, logouts, session>>

RefreshSet ==
  /\ handler.step = "set"
  /\ handler' = [step |-> "issued", token |-> NewRefreshToken]
  /\ UNCHANGED <<localToken, cookie, pageVars, requests, isRefreshing, logouts>>
  /\ Store(handler'.token)

(* The answer: the new cookie, the new token, and everybody who waited is  *)
(* sent again with it.                                                     *)
RefreshAnswers ==
  /\ handler.step = "issued"
  /\ cookie' = handler.token /\ handler' = NoHandler
  /\ localToken' = "good" /\ isRefreshing' = FALSE
  /\ requests' = [r \in Requests |->
       IF requests[r].state \in {"queued", "refreshing"} THEN Sent("good", TRUE) ELSE requests[r]]
  /\ UNCHANGED <<pageVars, logouts, session>>
  /\ RedisKeeps(redis)

\* Mutant: the page stays where it is.
RefreshRefusedStays ==
  /\ handler.step = "refused"
  /\ handler' = NoHandler /\ isRefreshing' = FALSE
  /\ localToken' = "none"
  /\ requests' = [r \in Requests |-> IF requests[r].state = "refreshing" THEN Idle ELSE requests[r]]
  /\ UNCHANGED <<cookie, pageVars, logouts, session>>
  /\ RedisKeeps(redis)
(* The refresh failed: whoever waits is forgotten, neither sent again nor  *)
(* rejected, and the page is left.                                         *)
RefreshRefused ==
  /\ handler.step = "refused"
  /\ handler' = NoHandler /\ isRefreshing' = FALSE
  /\ localToken' = "none" /\ leaving' = TRUE
  /\ requests' = [r \in Requests |-> IF requests[r].state = "refreshing" THEN Idle ELSE requests[r]]
  /\ UNCHANGED <<cookie, page, challenge, me, logouts, session>>
  /\ RedisKeeps(redis)

\* The connection breaks, wherever the handler is; what it did stays done.
RefreshLost ==
  /\ handler.step \in {"get", "delete", "set", "issued"}
  /\ handler' = [handler EXCEPT !.step = "refused"] /\ session' = "troubled"
  /\ UNCHANGED <<localToken, cookie, redis, pageVars, requests, isRefreshing, logouts>>

Refresh ==
  RefreshGet \/ RefreshDelete \/ RefreshSet \/ RefreshAnswers \/ RefreshRefused \/ RefreshLost

SessionNext ==
  \/ SubmitLogin \/ CompleteTotp \/ BackToLogin \/ OAuthCallback
  \/ \E w \in me : MeAnswers(w) \/ MeFails(w)
  \/ Logout \/ LogoutHandled \/ LoadPage \/ TokenExpires
  \/ \E r \in Requests : Send(r) \/ Answered(r) \/ Denied(r)
  \/ Refresh

SessionSpec == SessionInit /\ [][SessionNext]_sessionVars

-----------------------------------------------------------------------------
SessionTypeOK ==
  /\ localToken \in AccessTokens
  /\ cookie \in RefreshTokens \cup {NoCookie} /\ redis \cup logouts \subseteq RefreshTokens
  /\ page \in {"app", "login"} /\ me \subseteq {"login", "callback", "load"}
  /\ {leaving, challenge, isRefreshing} \subseteq BOOLEAN /\ session \in {"none", "kept", "troubled"}
  /\ requests \in [Requests -> RequestStates]
  /\ handler \in [step : {"none", "get", "delete", "set", "issued", "refused"},
                  token : RefreshTokens \cup {NoCookie}]

(* However many requests meet an expired token at once, and whatever       *)
(* logouts are still under way, a user who signed in stays so: the refresh *)
(* finds its token, and the browser ends with one the server knows. Only a *)
(* failing Redis or network, a page load during a refresh or with an       *)
(* expired token, or a logout end it. The code: _isRefreshing and          *)
(* _refreshQueue, and the rotation of the refresh token.                   *)
StaysSignedIn ==
  session = "kept" =>
    /\ localToken # "none" /\ page = "app" /\ ~leaving
    /\ handler = NoHandler => cookie \in redis

(* While a request is queued, a refresh is under way on the server that    *)
(* will end the wait; or the refresh has failed, and the page is being     *)
(* left with a request that is neither replayed nor rejected. The code:    *)
(* _refreshQueue, which is emptied without a word when the refresh fails,  *)
(* _isRefreshing, and location.href.                                       *)
QueueIsServed ==
  (\E r \in Requests : requests[r].state = "queued")
    => leaving \/ (isRefreshing /\ handler # NoHandler)
=============================================================================
