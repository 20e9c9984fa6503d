------------------------ MODULE ImageTransfer_proofs ------------------------
(***************************************************************************)
(* Proofs about image.Pull and image.Build, for any registries, configs    *)
(* and number of attempts.                                                 *)
(***************************************************************************)
EXTENDS ImageTransfer, TLAPS

-----------------------------------------------------------------------------
(* What the sources of credentials answer, for any registries, programs    *)
(* and configs.                                                            *)

\* The names of Docker Hub resolve to one registry, all others to themselves.
LEMMA ResolvedHost ==
  ASSUME NEW host \in Hosts
  PROVE  ResolveRegistryHost(host) \in Hosts
BY NamesAssumption DEF ResolveRegistryHost

\* A helper's answer is an AuthConfig for the registry it was asked about, and it is an
\* error for exactly the answers that are neither credentials nor their absence.
LEMMA HelperAnswers ==
  ASSUME NEW answer \in Answers, NEW host \in Hosts
  PROVE  /\ CredentialsFromHelper(answer, host) \in AuthConfigs
         /\ CredentialsFromHelper(answer, host).of \in {"nobody", host}
         /\ CredentialsFromHelper(answer, host).ok
              <=> answer \notin {"lookupFails", "noServerURL", "broken"}
BY DEF CredentialsFromHelper, Answers, AuthConfigs, Nothing, Failed, Password, Token

\* So is what the config itself holds.
LEMMA StoredAnswers ==
  ASSUME NEW fields, NEW host \in Hosts
  PROVE  /\ ProcessStored(fields, host) \in AuthConfigs
         /\ ProcessStored(fields, host).of \in {"nobody", host}
BY DEF ProcessStored, AuthConfigs, Failed, Password, Token

\* What a config leads to without its helpers: an answer, or the default helper.
LEMMA FromConfigLeads ==
  ASSUME NEW file, NEW host \in Hosts
  PROVE  LET s == FromConfig(file, host) IN
         /\ s.source \in {"none", "default"}
         /\ s.creds \in AuthConfigs /\ s.creds.of \in {"nobody", host}
<1>1. Nothing \in AuthConfigs /\ Nothing.of = "nobody"
  BY DEF Nothing, Failed, AuthConfigs
<1>2. QED
  BY <1>1, StoredAnswers DEF FromConfig

\* The first source is the helper of the registry if and only if the config names one, and
\* the store only if there is one.
LEMMA FirstSourceLeads ==
  ASSUME NEW file, NEW host \in Hosts
  PROVE  LET s == FirstSource(file, host) IN
         /\ s.source \in {"none"} \cup Sources
         /\ s.source = "helper" <=> host \in DOMAIN file.helpers
         /\ s.source = "store" => file.store # "none"
         /\ s.creds \in AuthConfigs /\ s.creds.of \in {"nobody", host}
<1>1. Nothing \in AuthConfigs /\ Nothing.of = "nobody"
  BY DEF Nothing, Failed, AuthConfigs
<1>2. CASE host \in DOMAIN file.helpers
  BY <1>1, <1>2 DEF FirstSource, Sources
<1>3. CASE host \notin DOMAIN file.helpers /\ file.store # "none"
  BY <1>1, <1>3 DEF FirstSource, Sources
<1>4. CASE host \notin DOMAIN file.helpers /\ file.store = "none"
  BY <1>4, FromConfigLeads DEF FirstSource, Sources
<1>5. QED
  BY <1>2, <1>3, <1>4

\* After an answer there is at most the default helper to ask; a helper's answer is final.
LEMMA NextSourceLeads ==
  ASSUME NEW file, NEW source \in Sources, NEW host \in Hosts,
         NEW found \in AuthConfigs, found.of \in {"nobody", host}
  PROVE  LET s == NextSource(file, source, host, found) IN
         /\ s.source \in {"none", "default"}
         /\ source = "helper" => s.source = "none" /\ s.creds = found
         /\ s.creds \in AuthConfigs /\ s.creds.of \in {"nobody", host}
BY FromConfigLeads DEF NextSource

\* The program that a source stands for is one.
LEMMA SourcePrograms ==
  ASSUME NEW file, NamesPrograms(file), NEW source \in Sources, NEW host \in Hosts,
         source = "helper" => host \in DOMAIN file.helpers,
         source = "store" => file.store # "none"
  PROVE  Program(file, source, host) \in Programs
BY NamesAssumption DEF Program, NamesPrograms, Sources

-----------------------------------------------------------------------------

Early == {"options", "tag", "load", "function", "compose"} \cup Sources

\* Which calls come to a place: only a pull without a function of the caller asks the
\* config's sources, and it asks the registry's helper if and only if the config names one.
RightSource ==
  LET host == ResolveRegistryHost(op.image) IN
  /\ answers \in [Programs -> Answers]
  /\ at = "tag" => ~Pulling
  /\ at = "function" => Pulling /\ op.fn = "caller"
  /\ at = "load" => Pulling /\ op.fn = "lookup" /\ op.image # ""
  /\ at \in Sources =>
       /\ Pulling /\ op.fn = "lookup" /\ op.image \in Hosts /\ config \in Configs
       /\ at = "helper" <=> host \in DOMAIN config.helpers
       /\ at = "store" => config.store # "none"

\* The helper that the config names for the registry, if any, gave credentials or has none.
HelperAnswered ==
  LET host == ResolveRegistryHost(op.image) IN
  host \in DOMAIN config.helpers =>
    answers[config.helpers[host]] \notin {"lookupFails", "noServerURL", "broken"}

\* A pull that looked its credentials up is past the lookup only with the helper's answer.
Answered ==
  Pulling /\ op.fn = "lookup" /\ (at \in {"compose", "ask", "backoff", "read"} \/ attempts > 0)
    => HelperAnswered

\* The Engine's stream is open only where it is read, and nothing is sent early.
StreamInPlace ==
  /\ at \in Early => attempts = 0 /\ stream = "none"
  /\ stream = "open" => at = "read"

TransferInv ==
  TypeOK /\ RightSource /\ Answered /\ StreamInPlace /\ AllClosed /\ NoRetryAfterPermanent

-----------------------------------------------------------------------------

\* The caller's function and the config's own answers are AuthConfigs.
LEMMA CallersCredentials ==
  ASSUME NEW host \in Hosts \cup {"nobody"}
  PROVE  FromCaller(host) \subseteq AuthConfigs
<1>1. /\ Nothing \in AuthConfigs /\ Failed \in AuthConfigs
      /\ Password(host) \in AuthConfigs /\ Token(host) \in AuthConfigs
  BY DEF AuthConfigs, Nothing, Failed, Password, Token
<1>2. [Token(host) EXCEPT !.user = "<token>"] \in AuthConfigs
  BY <1>1 DEF AuthConfigs
<1>3. QED
  BY <1>1, <1>2 DEF FromCaller

\* A call that has not begun has nothing to close.
LEMMA InitTransfer ==
  Init => TransferInv
<1> SUFFICES ASSUME Init PROVE TransferInv
  OBVIOUS
<1>1. Nothing \in AuthConfigs /\ NoAuth \in Requests
  BY DEF AuthConfigs, Nothing, Failed, NoAuth, Requests, Secrets
<1>2. attempts \in 0..MaxAttempts
  BY AttemptsAssumption DEF Init
<1>3. TypeOK
  BY <1>1, <1>2 DEF Init, TypeOK, Places
<1>4. RightSource
  BY DEF Init, RightSource, Sources
<1>5. Answered /\ StreamInPlace /\ AllClosed /\ NoRetryAfterPermanent
  BY DEF Init, Answered, StreamInPlace, AllClosed, NoRetryAfterPermanent, PermanentErrors
<1>6. QED
  BY <1>3, <1>4, <1>5 DEF TransferInv

\* The options fail, or a pull goes on to its credentials and a build to its tag.
LEMMA OptionsKeeps ==
  ASSUME TransferInv, Options
  PROVE  TransferInv'
<1> USE DEF TransferInv
<1>1. /\ at = "options" /\ at' \in {"returned", "load", "function", "tag"}
      /\ result' \in {result, "error"}
      /\ UNCHANGED <<op, config, answers, creds, request, attempts, lastErr, context, expired,
                     reader, stream>>
  BY DEF Options, Goto, Return, inputs, asking, held
<1>2. attempts = 0 /\ stream = "none" /\ lastErr \notin PermanentErrors
  BY <1>1 DEF StreamInPlace, Early, NoRetryAfterPermanent
<1>3. TypeOK'
  BY <1>1 DEF TypeOK, Places
<1>4. RightSource'
  BY DEF Options, RightSource, Goto, Return, inputs, Sources, Pulling
<1>5. Answered'
  BY <1>1, <1>2 DEF Answered
<1>6. StreamInPlace' /\ AllClosed' /\ NoRetryAfterPermanent'
  BY <1>1, <1>2 DEF StreamInPlace, AllClosed, NoRetryAfterPermanent
<1>7. QED
  BY <1>3, <1>4, <1>5, <1>6

\* A build's tag is set, or there is none.
LEMMA TagKeeps ==
  ASSUME TransferInv, Tag
  PROVE  TransferInv'
<1> USE DEF TransferInv
<1>1. /\ at = "tag" /\ at' \in {"returned", "ask"} /\ result' \in {result, "error"}
      /\ UNCHANGED <<op, config, answers, creds, attempts, lastErr, context, expired, reader,
                     stream>>
  BY DEF Tag, Goto, Return, inputs, asking, held
<1>2. /\ attempts = 0 /\ stream = "none" /\ lastErr \notin PermanentErrors
      /\ ~Pulling /\ ~Pulling'
  BY <1>1 DEF StreamInPlace, Early, NoRetryAfterPermanent, RightSource, Pulling
<1>3. request' \in Requests
  <2>1. op.tag \in {"", "tag"}
    BY <1>2 DEF TypeOK, Pulling, Pulls, Builds
  <2>2. QED
    BY <2>1 DEF Tag, TypeOK, Requests
<1>4. TypeOK'
  BY <1>1, <1>3 DEF TypeOK, Places
<1>5. RightSource' /\ Answered'
  BY <1>1, <1>2 DEF RightSource, Answered, Sources
<1>6. StreamInPlace' /\ AllClosed' /\ NoRetryAfterPermanent'
  BY <1>1, <1>2 DEF StreamInPlace, AllClosed, NoRetryAfterPermanent, Early, Sources
<1>7. QED
  BY <1>4, <1>5, <1>6

-----------------------------------------------------------------------------
(* The credentials of a pull.                                              *)

\* A step of the lookup goes to a source, to the end of the lookup or to an error, and
\* touches nothing but the place, the credentials and the result.
LEMMA LookupKeeps ==
  ASSUME TransferInv, at \in Early,
         at' \in {"returned", "compose"} \cup Sources, result' \in {result, "error"},
         creds' \in AuthConfigs, RightSource', Answered',
         UNCHANGED <<op, config, answers, request, attempts, lastErr, context, expired, reader,
                     stream>>
  PROVE  TransferInv'
<1> USE DEF TransferInv
<1>1. attempts = 0 /\ stream = "none" /\ lastErr \notin PermanentErrors
  BY DEF StreamInPlace, Early, NoRetryAfterPermanent, Sources
<1>2. TypeOK'
  BY DEF TypeOK, Places
<1>3. StreamInPlace' /\ AllClosed' /\ NoRetryAfterPermanent'
  BY <1>1 DEF StreamInPlace, AllClosed, NoRetryAfterPermanent, Sources
<1>4. QED
  BY <1>2, <1>3

\* Where a lookup goes next with a source or its answer.
LEMMA FollowLeads ==
  ASSUME NEW s, Follow(s), TypeOK, s.source \in {"none"} \cup Sources, s.creds \in AuthConfigs
  PROVE  /\ at' \in {"returned", "compose"} \cup Sources /\ result' \in {result, "error"}
         /\ creds' \in AuthConfigs
         /\ at' \in Sources => s.source = at'
         /\ at' = "compose" => s.source = "none" /\ s.creds.ok
<1>1. s.source \notin {"compose", "returned"} /\ "returned" \notin Sources
        /\ "compose" \notin Sources /\ "none" \notin Sources
  BY DEF Sources
<1>2. CASE s.source # "none"
  BY <1>1, <1>2 DEF Follow, Goto, TypeOK
<1>3. CASE s.source = "none" /\ s.creds.ok
  BY <1>1, <1>3 DEF Follow, Goto
<1>4. CASE s.source = "none" /\ ~s.creds.ok
  BY <1>1, <1>4 DEF Follow, Return, TypeOK
<1>5. QED
  BY <1>2, <1>3, <1>4

\* The config leads to the first source, and past all of them only if it names no helper.
LEMMA LoadConfigKeeps ==
  ASSUME TransferInv, LoadConfig
  PROVE  TransferInv'
<1> USE DEF TransferInv
<1> DEFINE host == ResolveRegistryHost(op.image)
           s == FirstSource(config, host)
<1>1. /\ at = "load" /\ at \in Early /\ attempts = 0
      /\ Pulling /\ op.fn = "lookup" /\ op.image # ""
      /\ UNCHANGED <<op, config, answers, request, attempts, lastErr, context, expired, reader,
                     stream>>
  BY DEF LoadConfig, inputs, asking, held, Early, RightSource, StreamInPlace
<1>2. CASE config = NoConfig \/ op.image = "malformed"
  <2>1. at' = "returned" /\ result' = "error" /\ creds' = creds
    BY <1>2 DEF LoadConfig, Return
  <2>2. RightSource'
    BY <1>1, <2>1 DEF RightSource, Sources
  <2>3. Answered'
    <3>1. attempts' = 0
      BY <1>1
    <3>2. QED
      BY <2>1, <3>1 DEF Answered
  <2>4. creds' \in AuthConfigs
    BY <2>1 DEF TypeOK
  <2>5. QED
    BY <1>1, <2>1, <2>2, <2>3, <2>4, LookupKeeps
<1>3. CASE config # NoConfig /\ op.image # "malformed"
  <2>1. op.image \in Hosts /\ config \in Configs
    BY <1>1, <1>3 DEF TypeOK, Pulling, Pulls, Builds
  <2>2. host \in Hosts
    BY <2>1, ResolvedHost
  <2>3. Follow(s)
    BY <1>3 DEF LoadConfig
  <2>4. /\ s.source \in {"none"} \cup Sources
        /\ s.source = "helper" <=> host \in DOMAIN config.helpers
        /\ s.source = "store" => config.store # "none"
        /\ s.creds \in AuthConfigs
    BY <2>2, FirstSourceLeads
  <2> HIDE DEF s
  <2>5. /\ at' \in {"returned", "compose"} \cup Sources /\ result' \in {result, "error"}
        /\ creds' \in AuthConfigs
        /\ at' \in Sources => s.source = at'
        /\ at' = "compose" => s.source = "none"
    BY <2>3, <2>4, FollowLeads
  <2>6. RightSource'
    BY <1>1, <2>1, <2>4, <2>5 DEF RightSource, Sources, Pulling
  <2>7. Answered'
    BY <1>1, <2>4, <2>5 DEF Answered, HelperAnswered, Sources
  <2>8. QED
    BY <1>1, <2>5, <2>6, <2>7, LookupKeeps
<1>4. QED
  BY <1>2, <1>3

\* The registry's helper has the last word; what the other sources answer does not matter to
\* it.
LEMMA AskSourceKeeps ==
  ASSUME TransferInv, AskSource
  PROVE  TransferInv'
<1> USE DEF TransferInv
<1> DEFINE host == ResolveRegistryHost(op.image)
           answer == answers[Program(config, at, host)]
           found == CredentialsFromHelper(answer, host)
           s == NextSource(config, at, host, found)
<1>1. /\ at \in Sources /\ at \in Early /\ attempts = 0
      /\ Pulling /\ op.fn = "lookup" /\ op.image \in Hosts /\ config \in Configs
      /\ at = "helper" <=> host \in DOMAIN config.helpers
      /\ at = "store" => config.store # "none"
      /\ UNCHANGED <<op, config, answers, request, attempts, lastErr, context, expired, reader,
                     stream>>
  BY DEF AskSource, inputs, asking, held, Early, RightSource, StreamInPlace
<1>2. host \in Hosts
  BY <1>1, ResolvedHost
<1>3. answer \in Answers
  BY <1>1, <1>2, SourcePrograms, ConfigsAssumption DEF RightSource
<1>4. Follow(s)
  BY DEF AskSource
<1>5. /\ found \in AuthConfigs /\ found.of \in {"nobody", host}
      /\ found.ok <=> answer \notin {"lookupFails", "noServerURL", "broken"}
  BY <1>2, <1>3, HelperAnswers
<1> HIDE DEF found
<1>6. /\ s.source \in {"none", "default"}
      /\ at = "helper" => s.source = "none" /\ s.creds = found
      /\ s.creds \in AuthConfigs
  BY <1>1, <1>2, <1>5, NextSourceLeads
<1> HIDE DEF s
<1>7. /\ at' \in {"returned", "compose"} \cup Sources /\ result' \in {result, "error"}
      /\ creds' \in AuthConfigs
      /\ at' \in Sources => s.source = at'
      /\ at' = "compose" => s.source = "none" /\ s.creds.ok
  BY <1>4, <1>6, FollowLeads DEF Sources
<1>8. RightSource'
  BY <1>1, <1>6, <1>7 DEF RightSource, Sources, Pulling
<1>9. Answered'
  <2>1. at = "helper" => Program(config, at, host) = config.helpers[host]
    BY DEF Program
  <2>2. at = "helper" /\ at' = "compose" => HelperAnswered'
    BY <1>1, <1>5, <1>6, <1>7, <2>1 DEF HelperAnswered
  <2>3. at # "helper" => HelperAnswered'
    BY <1>1 DEF HelperAnswered
  <2>4. QED
    BY <1>1, <1>7, <2>2, <2>3 DEF Answered, Sources
<1>10. QED
  BY <1>1, <1>7, <1>8, <1>9, LookupKeeps

\* The caller's function takes the place of the whole lookup.
LEMMA CallersFunctionKeeps ==
  ASSUME TransferInv, CallersFunction
  PROVE  TransferInv'
<1> USE DEF TransferInv
<1>1. /\ at = "function" /\ at \in Early /\ attempts = 0 /\ Pulling /\ op.fn = "caller"
      /\ UNCHANGED <<op, config, answers, request, attempts, lastErr, context, expired, reader,
                     stream>>
  BY DEF CallersFunction, inputs, asking, held, Early, RightSource, StreamInPlace
<1>2. /\ at' \in {"returned", "compose"} /\ result' \in {result, "error"}
      /\ creds' \in AuthConfigs
  <2>1. PICK c \in FromCaller(IF op.image \in Hosts THEN op.image ELSE "nobody") :
          IF c.ok THEN Goto("compose") /\ creds' = c ELSE Return("error") /\ UNCHANGED creds
    BY DEF CallersFunction
  <2>2. c \in AuthConfigs
    BY CallersCredentials
  <2>3. QED
    BY <2>1, <2>2 DEF Goto, Return, TypeOK
<1>3. RightSource' /\ Answered'
  BY <1>1, <1>2 DEF RightSource, Answered, Sources
<1>4. QED
  BY <1>1, <1>2, <1>3, LookupKeeps

\* What is sent is the user name or the token.
LEMMA ComposeKeeps ==
  ASSUME TransferInv, Compose
  PROVE  TransferInv'
<1> USE DEF TransferInv
<1>1. /\ at = "compose" /\ at' = "ask"
      /\ UNCHANGED <<op, config, answers, creds, attempts, lastErr, context, expired, reader,
                     stream, result>>
  BY DEF Compose, Goto, inputs, asking, held
<1>2. attempts = 0 /\ stream = "none" /\ lastErr \notin PermanentErrors
  BY <1>1 DEF StreamInPlace, Early, NoRetryAfterPermanent
<1>3. request' \in Requests
  <2>1. creds.user \in {"", "name", "<token>"} /\ creds.secret \in Secrets
    BY DEF TypeOK, AuthConfigs, Secrets
  <2>2. QED
    BY <2>1 DEF Compose, NoAuth, Requests, Secrets
<1>4. TypeOK'
  BY <1>1, <1>3 DEF TypeOK, Places
<1>5. RightSource' /\ Answered'
  BY <1>1 DEF RightSource, Answered, Sources, Pulling, HelperAnswered
<1>6. StreamInPlace' /\ AllClosed' /\ NoRetryAfterPermanent'
  BY <1>1, <1>2 DEF StreamInPlace, AllClosed, NoRetryAfterPermanent, Early, Sources
<1>7. QED
  BY <1>4, <1>5, <1>6

-----------------------------------------------------------------------------
(* Attempts.                                                               *)

\* A step among the attempts leaves the pull's answers, and hence the lookup, alone.
LEMMA AttemptKeepsLookup ==
  ASSUME TransferInv, at \in {"ask", "backoff", "read"},
         at' \in {"ask", "backoff", "read", "returned"},
         UNCHANGED <<op, config, answers>>
  PROVE  RightSource' /\ Answered'
<1>1. RightSource'
  BY DEF TransferInv, RightSource, Sources
<1>2. Answered'
  BY DEF TransferInv, Answered, HelperAnswered, Pulling
<1>3. QED
  BY <1>1, <1>2

\* A return closes the Engine's stream and the build context.
LEMMA ReturnCloses ==
  ASSUME NEW outcome \in {"ok", "error"}, ReturnAndClose(outcome), TypeOK
  PROVE  /\ at' = "returned" /\ result' = outcome
         /\ reader' \in {"none", "closed"} /\ stream' \in {"none", "closed"}
BY DEF ReturnAndClose, Return, TypeOK

\* The Engine takes the request and opens its stream.
LEMMA AcceptedKeeps ==
  ASSUME TransferInv, Accepted
  PROVE  TransferInv'
<1> USE DEF TransferInv
<1>1. /\ at = "ask" /\ at' = "read" /\ attempts < MaxAttempts /\ attempts' = attempts + 1
      /\ stream' = "open" /\ context' \in {context, "used"}
      /\ UNCHANGED <<op, config, answers, creds, request, lastErr, expired, reader, result>>
  BY DEF Accepted, Goto, sent, inputs
<1>2. attempts' \in 0..MaxAttempts
  BY <1>1, AttemptsAssumption DEF TypeOK
<1>3. TypeOK'
  BY <1>1, <1>2 DEF TypeOK, Places
<1>4. RightSource' /\ Answered'
  BY <1>1, AttemptKeepsLookup
<1>5. StreamInPlace' /\ AllClosed' /\ NoRetryAfterPermanent'
  BY <1>1 DEF StreamInPlace, AllClosed, NoRetryAfterPermanent, Early, Sources
<1>6. QED
  BY <1>3, <1>4, <1>5

\* An error that will not pass ends the call, any other one the attempt.
LEMMA RefusedKeeps ==
  ASSUME TransferInv, Refused
  PROVE  TransferInv'
<1> USE DEF TransferInv
<1>1. /\ at = "ask" /\ attempts < MaxAttempts /\ attempts' = attempts + 1
      /\ context' \in {context, "used"}
      /\ UNCHANGED <<op, config, answers, creds, request, expired>>
  BY DEF Refused, sent, inputs
<1>2. PICK err \in PermanentErrors \cup PassingErrors :
        /\ lastErr' = err
        /\ IF IsPermanentClientError(err) THEN ReturnAndClose("error")
           ELSE Goto("backoff") /\ UNCHANGED held
  BY DEF Refused, PassingErrors
<1>3. attempts' \in 0..MaxAttempts
  BY <1>1, AttemptsAssumption DEF TypeOK
<1>4. stream # "open"
  BY <1>1 DEF StreamInPlace
<1>5. CASE err \in PermanentErrors
  <2>1. ReturnAndClose("error")
    BY <1>2, <1>5 DEF IsPermanentClientError
  <2>2. /\ at' = "returned" /\ result' = "error"
        /\ reader' \in {"none", "closed"} /\ stream' \in {"none", "closed"}
    BY <2>1, ReturnCloses
  <2>3. TypeOK'
    BY <1>1, <1>2, <1>3, <2>2 DEF TypeOK, Places
  <2>4. RightSource' /\ Answered'
    BY <1>1, <2>2, AttemptKeepsLookup
  <2>5. StreamInPlace' /\ AllClosed' /\ NoRetryAfterPermanent'
    BY <2>2 DEF StreamInPlace, AllClosed, NoRetryAfterPermanent, Early, Sources
  <2>6. QED
    BY <2>3, <2>4, <2>5
<1>6. CASE err \notin PermanentErrors
  <2>1. at' = "backoff" /\ UNCHANGED <<result, reader, stream>>
    BY <1>2, <1>6 DEF IsPermanentClientError, Goto, held
  <2>2. TypeOK'
    BY <1>1, <1>2, <1>3, <2>1 DEF TypeOK, Places
  <2>3. RightSource' /\ Answered'
    BY <1>1, <2>1, AttemptKeepsLookup
  <2>4. StreamInPlace' /\ AllClosed' /\ NoRetryAfterPermanent'
    BY <1>2, <1>4, <1>6, <2>1
       DEF StreamInPlace, AllClosed, NoRetryAfterPermanent, Early, Sources
  <2>5. QED
    BY <2>2, <2>3, <2>4
<1>7. QED
  BY <1>5, <1>6

\* The operation is tried again, or given up.
LEMMA BackoffKeeps ==
  ASSUME TransferInv, Backoff
  PROVE  TransferInv'
<1> USE DEF TransferInv
<1>1. /\ at = "backoff"
      /\ UNCHANGED <<op, config, answers, creds, request, attempts, lastErr, context, expired>>
  BY DEF Backoff, sent, asking, inputs
<1>2. lastErr \notin PermanentErrors /\ stream # "open"
  BY <1>1 DEF NoRetryAfterPermanent, StreamInPlace
<1>3. CASE Goto("ask") /\ UNCHANGED held
  <2>1. at' = "ask" /\ UNCHANGED <<result, reader, stream>>
    BY <1>3 DEF Goto, held
  <2>2. TypeOK'
    BY <1>1, <2>1 DEF TypeOK, Places
  <2>3. RightSource' /\ Answered'
    BY <1>1, <2>1, AttemptKeepsLookup
  <2>4. StreamInPlace' /\ AllClosed' /\ NoRetryAfterPermanent'
    BY <1>1, <1>2, <2>1 DEF StreamInPlace, AllClosed, NoRetryAfterPermanent, Early, Sources
  <2>5. QED
    BY <2>2, <2>3, <2>4
<1>4. CASE ReturnAndClose("error")
  <2>1. /\ at' = "returned" /\ result' = "error"
        /\ reader' \in {"none", "closed"} /\ stream' \in {"none", "closed"}
    BY <1>4, ReturnCloses
  <2>2. TypeOK'
    BY <1>1, <2>1 DEF TypeOK, Places
  <2>3. RightSource' /\ Answered'
    BY <1>1, <2>1, AttemptKeepsLookup
  <2>4. StreamInPlace' /\ AllClosed' /\ NoRetryAfterPermanent'
    BY <1>1, <1>2, <2>1 DEF StreamInPlace, AllClosed, NoRetryAfterPermanent, Early, Sources
  <2>5. QED
    BY <2>2, <2>3, <2>4
<1>5. QED
  BY <1>3, <1>4 DEF Backoff

\* At the end of the stream, as when it breaks, the call returns.
LEMMA ReadKeeps ==
  ASSUME TransferInv, Read
  PROVE  TransferInv'
<1> USE DEF TransferInv
<1>1. /\ at = "read"
      /\ UNCHANGED <<op, config, answers, creds, request, attempts, lastErr, context, expired>>
  BY DEF Read, sent, inputs
<1>2. /\ at' = "returned" /\ result' \in {"ok", "error"}
      /\ reader' \in {"none", "closed"} /\ stream' \in {"none", "closed"}
  BY ReturnCloses DEF Read
<1>3. TypeOK'
  BY <1>1, <1>2 DEF TypeOK, Places
<1>4. RightSource' /\ Answered'
  BY <1>1, <1>2, AttemptKeepsLookup
<1>5. StreamInPlace' /\ AllClosed' /\ NoRetryAfterPermanent'
  BY <1>1, <1>2 DEF StreamInPlace, AllClosed, NoRetryAfterPermanent, Early, Sources
<1>6. QED
  BY <1>3, <1>4, <1>5

\* The end of the caller's context is noticed later, and nothing else happens at it.
LEMMA OthersKeep ==
  ASSUME TransferInv, Expire \/ UNCHANGED vars
  PROVE  TransferInv'
<1> USE DEF TransferInv
<1>1. /\ expired' \in {expired, TRUE}
      /\ UNCHANGED <<op, config, answers, at, creds, request, attempts, lastErr, context,
                     reader, stream, result>>
  BY DEF Expire, vars, sent, held, inputs
<1>2. TypeOK'
  BY <1>1, ZenonT(40) DEF TypeOK
<1>3. RightSource' /\ Answered'
  BY <1>1 DEF RightSource, Answered, HelperAnswered, Pulling
<1>4. StreamInPlace' /\ AllClosed' /\ NoRetryAfterPermanent'
  BY <1>1 DEF StreamInPlace, AllClosed, NoRetryAfterPermanent
<1>5. QED
  BY <1>2, <1>3, <1>4

-----------------------------------------------------------------------------

\* The invariant holds in every reachable state.
LEMMA TransferHolds ==
  Spec => []TransferInv
<1>1. ASSUME TransferInv, [Next]_vars
      PROVE  TransferInv'
  BY <1>1, OptionsKeeps, TagKeeps, LoadConfigKeeps, AskSourceKeeps, CallersFunctionKeeps,
     ComposeKeeps, AcceptedKeeps, RefusedKeeps, BackoffKeeps, ReadKeeps, OthersKeep
     DEF Next, Call
<1>2. QED
  BY InitTransfer, <1>1, PTL DEF Spec

\* Every variable of a pull or a build holds a value of its kind.
THEOREM TypeCorrect ==
  Spec => []TypeOK
<1>1. TransferInv => TypeOK
  BY DEF TransferInv
<1>2. QED
  BY <1>1, TransferHolds, PTL

\* Whatever the bound on the attempts: after an error that IsPermanentClientError knows, the
\* Engine is not asked again and the call has returned an error.
THEOREM PermanentIsFinal ==
  Spec => []NoRetryAfterPermanent
<1>1. TransferInv => NoRetryAfterPermanent
  BY DEF TransferInv
<1>2. QED
  BY <1>1, TransferHolds, PTL

\* On every way out of a pull or a build, the deferred calls have closed the Engine's stream,
\* and the reader of the build context once the Engine was asked.
THEOREM ReturnsClosed ==
  Spec => []AllClosed
<1>1. TransferInv => AllClosed
  BY DEF TransferInv
<1>2. QED
  BY <1>1, TransferHolds, PTL

\* For any config and any answers of the helper programs: a pull that looks its credentials up
\* reaches the Engine only if the helper that is named for the registry, when there is one,
\* was found and gave a proper answer.
THEOREM BrokenHelperStops ==
  Spec => []NoSilentAnonymous
<1>1. TransferInv => NoSilentAnonymous
  BY DEF TransferInv, Answered, HelperAnswered, NoSilentAnonymous
<1>2. QED
  BY <1>1, TransferHolds, PTL

=============================================================================
