--------------------------- MODULE ImageTransfer ---------------------------
(***************************************************************************)
(* image.Pull and image.Build: the request is put together, sent to the    *)
(* Engine and sent again after errors that may pass, and the Engine's      *)
(* stream is read to its end.  A pull looks its credentials up in the      *)
(* config unless the caller brings a function for them.                    *)
(***************************************************************************)
EXTENDS Naturals, FiniteSets, CredentialSources

CONSTANTS Configs,      \* [helpers, store, stored], see CredentialSources
          MaxAttempts   \* bound: attempts until the backoff's time is used up

ASSUME AttemptsAssumption == MaxAttempts \in Nat \ {0}
ASSUME ConfigsAssumption == \A config \in Configs : NamesPrograms(config)

VARIABLES
  op,         \* "pull" or "build", and what the caller gives: see Pulls and Builds
  config,     \* the config file, or that it cannot be loaded
  answers,    \* what each helper program would answer
  at,         \* where the call is
  creds,      \* the credentials found so far
  request,    \* what the Engine is asked: the registry's authentication, or the tag
  attempts,   \* how often it was asked
  lastErr,    \* the kind of its last error
  context,    \* the build context that is left in the reader; a pull has none
  reader,     \* the reader of the build context: "none", "open" or "closed"
  stream,     \* the Engine's answer: "none", "open" or "closed"
  expired,    \* the caller's context has ended
  result      \* "none", "ok" or "error"

inputs == <<op, config, answers>>
vars == <<inputs, at, creds, request, attempts, lastErr, context, reader, stream,
          expired, result>>

NoConfig == [helpers |-> [h \in {} |-> ""], store |-> "unreadable", stored |-> [h \in {} |-> {}]]

\* Credentials that a caller's function may return; "lookup" stands for no function.
FromCaller(host) == {Nothing, Failed, Password(host), [Token(host) EXCEPT !.user = "<token>"]}
Pulls == [kind : {"pull"}, image : Hosts \cup {"", "malformed"}, fn : {"lookup", "caller"}]
Builds == [kind : {"build"}, reader : {"none", "plain", "closer"}, tag : {"", "tag"},
           optionTag : {"absent", "", "other"}]

\* IsPermanentClientError, by the kinds of errdefs.
PermanentErrors == {"notFound", "invalidArgument", "unauthorized", "permissionDenied",
                    "notImplemented", "internal"}
PassingErrors == {"unavailable", "conflict", "unknown"}

\* Faulty: rejected credentials are tried again.
PermanentButUnauthorized(err) == err \in PermanentErrors \ {"unauthorized"}

IsPermanentClientError(err) == err \in PermanentErrors

NoAuth == [user |-> "", password |-> "none", identity |-> "none", server |-> "", tag |-> ""]
Pulling == op.kind = "pull"

-----------------------------------------------------------------------------
Init ==
  /\ op \in Pulls \cup Builds
  /\ config \in Configs \cup {NoConfig}
  /\ answers \in [Programs -> Answers]
  /\ Pulling \/ (config = NoConfig /\ answers = [p \in Programs |-> "notInstalled"])
  /\ at = "options" /\ creds = Nothing /\ request = NoAuth
  /\ attempts = 0 /\ lastErr = "none"
  /\ context = IF Pulling THEN "none" ELSE "whole"
  /\ reader = IF ~Pulling /\ op.reader = "closer" THEN "open" ELSE "none"
  /\ stream = "none" /\ expired = FALSE /\ result = "none"

Goto(place) == at' = place /\ UNCHANGED result
\* The call returns, and what it deferred runs.
Return(outcome) == at' = "returned" /\ result' = outcome

\* Faulty: closes nothing.
ReturnOnly(outcome) ==
  /\ Return(outcome) /\ UNCHANGED <<reader, stream>>

ReturnAndClose(outcome) ==
  /\ Return(outcome)
  /\ reader' = IF reader = "open" THEN "closed" ELSE reader
  /\ stream' = IF stream = "open" THEN "closed" ELSE stream

asking == <<attempts, lastErr, context, expired>>
held == <<reader, stream>>

\* The options, some of which may fail, and the client, which may not reach an Engine.
Options ==
  /\ at = "options"
  /\ \/ Return("error")
     \/ Pulling /\ op.fn = "lookup" /\ op.image # "" /\ Goto("load")
     \/ Pulling /\ op.fn = "caller" /\ op.image # "" /\ Goto("function")
     \/ ~Pulling /\ op.reader # "none" /\ Goto("tag")
  /\ UNCHANGED <<inputs, creds, request, asking, held>>

\* The argument replaces the options' first tag, also by an empty one.
Tag ==
  /\ at = "tag"
  /\ IF op.tag = "" /\ op.optionTag \in {"absent", ""}
     THEN Return("error") /\ UNCHANGED request
     ELSE Goto("ask") /\ request' = [request EXCEPT !.tag = op.tag]
  /\ UNCHANGED <<inputs, creds, asking, held>>

-----------------------------------------------------------------------------
(* The credentials of a pull.                                              *)

\* Faulty: without an answer the pull goes on without credentials.
FollowAnyway(s) ==
  IF s.source # "none" THEN Goto(s.source) /\ UNCHANGED creds
  ELSE Goto("compose") /\ creds' = s.creds

\* Go on with a source, or with its answer.
Follow(s) ==
  CASE s.source # "none"               -> Goto(s.source) /\ UNCHANGED creds
    [] s.source = "none" /\ s.creds.ok -> Goto("compose") /\ creds' = s.creds
    [] OTHER                           -> Return("error") /\ UNCHANGED creds

\* Load reads the config anew for every pull: what one pull has cached, no other one sees.
LoadConfig ==
  /\ at = "load"
  /\ IF config = NoConfig \/ op.image = "malformed" THEN Return("error") /\ UNCHANGED creds
     ELSE Follow(FirstSource(config, ResolveRegistryHost(op.image)))
  /\ UNCHANGED <<inputs, request, asking, held>>

AskSource ==
  /\ at \in Sources
  /\ LET host == ResolveRegistryHost(op.image) IN
     Follow(NextSource(config, at, host,
                       CredentialsFromHelper(answers[Program(config, at, host)], host)))
  /\ UNCHANGED <<inputs, request, asking, held>>

CallersFunction ==
  /\ at = "function"
  /\ \E c \in FromCaller(IF op.image \in Hosts THEN op.image ELSE "nobody") :
       IF c.ok THEN Goto("compose") /\ creds' = c ELSE Return("error") /\ UNCHANGED creds
  /\ UNCHANGED <<inputs, request, asking, held>>

\* Faulty: the user name is sent as it is.
ComposeVerbatim ==
  /\ at = "compose" /\ Goto("ask")
  /\ request' = [NoAuth EXCEPT !.user = creds.user, !.password = creds.secret,
                               !.server = IF op.image \in Hosts THEN op.image ELSE ""]
  /\ UNCHANGED <<inputs, creds, asking, held>>

\* The user name tells whether the secret is a token.  A malformed name gives no server.
Compose ==
  /\ at = "compose" /\ Goto("ask")
  /\ LET server == IF op.image \in Hosts THEN op.image ELSE "" IN
     request' = IF creds.user = "<token>"
                THEN [NoAuth EXCEPT !.identity = creds.secret, !.server = server]
                ELSE [NoAuth EXCEPT !.user = creds.user, !.password = creds.secret,
                                    !.server = server]
  /\ UNCHANGED <<inputs, creds, asking, held>>

-----------------------------------------------------------------------------
(* Attempts.                                                               *)

sent == <<inputs, creds, request>>

\* The Engine accepts the request.  A build has sent its context.
Accepted ==
  /\ at = "ask" /\ attempts < MaxAttempts /\ ~expired
  /\ attempts' = attempts + 1 /\ stream' = "open" /\ Goto("read")
  /\ context' = IF Pulling THEN context ELSE "used"
  /\ UNCHANGED <<sent, lastErr, reader, expired>>

\* It does not, or the caller's context has ended; how much of the build context was sent
\* by then depends on the error.
Refused ==
  /\ at = "ask" /\ attempts < MaxAttempts
  /\ attempts' = attempts + 1
  /\ \E err \in IF expired THEN {"unknown"} ELSE PermanentErrors \cup PassingErrors :
       /\ lastErr' = err
       /\ IF IsPermanentClientError(err) THEN ReturnAndClose("error")
          ELSE Goto("backoff") /\ UNCHANGED held
  /\ context' \in IF Pulling THEN {context} ELSE {context, "used"}
  /\ UNCHANGED <<sent, expired>>

\* Faulty: no end to the attempts.
BackoffForever ==
  /\ at = "backoff" /\ ~expired /\ attempts < MaxAttempts /\ Goto("ask")
  /\ UNCHANGED <<sent, asking, held>>

\* The backoff waits and the operation is tried again, unless the caller's context ends or
\* the time for all attempts is used up.
Backoff ==
  /\ at = "backoff"
  /\ \/ ~expired /\ attempts < MaxAttempts /\ Goto("ask") /\ UNCHANGED held
     \/ ReturnAndClose("error")
  /\ UNCHANGED <<sent, asking>>

\* The stream is read to its end, or breaks; the Engine reports in it what fails from now
\* on.
Read ==
  /\ at = "read"
  /\ ReturnAndClose("ok") \/ ReturnAndClose("error")
  /\ UNCHANGED <<sent, attempts, lastErr, context, expired>>

Expire ==
  /\ at # "returned" /\ ~expired /\ expired' = TRUE
  /\ UNCHANGED <<sent, at, attempts, lastErr, context, held, result>>

Call ==
  \/ Options \/ Tag \/ LoadConfig \/ AskSource \/ CallersFunction \/ Compose
  \/ Accepted \/ Refused \/ Backoff \/ Read

Next == Call \/ Expire

Spec == Init /\ [][Next]_vars

\* The calling goroutine goes on; the Engine, helper programs and timers answer.
FairSpec == Spec /\ WF_vars(Call)

-----------------------------------------------------------------------------
(* Properties.                                                             *)

Places == {"options", "tag", "load", "function", "compose", "ask", "backoff", "read", "returned"}
            \cup Sources
Secrets == {"none", "password", "token"}
Requests == [user : {"", "name"}, password : Secrets, identity : Secrets,
             server : Hosts \cup {""}, tag : {"", "tag"}]

\* Every variable holds a value of its kind.
TypeOK ==
  /\ op \in Pulls \cup Builds /\ config \in Configs \cup {NoConfig}
  /\ at \in Places /\ creds \in AuthConfigs
  /\ request \in Requests
  /\ attempts \in 0..MaxAttempts
  /\ lastErr \in {"none"} \cup PermanentErrors \cup PassingErrors
  /\ context \in {"none", "whole", "used"} /\ reader \in {"none", "open", "closed"}
  /\ stream \in {"none", "open", "closed"} /\ expired \in BOOLEAN
  /\ result \in {"none", "ok", "error"}

\* After an error that will not pass, the Engine is not asked again.
NoRetryAfterPermanent ==
  lastErr \in PermanentErrors => at = "returned" /\ result = "error"

\* However the call returns, it leaves no stream of the Engine open, and once the Engine
\* was asked no build context either.
AllClosed ==
  at = "returned" => stream # "open" /\ (attempts > 0 => reader # "open")

\* A pull is sent without credentials only when no source that has the last word failed: a
\* broken helper for the registry never turns into an anonymous pull.
NoSilentAnonymous ==
  Pulling /\ attempts > 0 /\ op.fn = "lookup" =>
    LET host == ResolveRegistryHost(op.image) IN
    host \in DOMAIN config.helpers =>
      answers[config.helpers[host]] \notin {"lookupFails", "noServerURL", "broken"}

\* Also without a deadline of the caller, the attempts come to an end.
CallEnds == <>(at = "returned")

\* Pull's comment says that a token is to be mapped "to the IdentityToken field so the
\* daemon handles it correctly"; it is said of every source of credentials.
TokenAsToken ==
  Pulling /\ attempts > 0 /\ creds.secret = "token" => request.identity = "token"

=============================================================================
