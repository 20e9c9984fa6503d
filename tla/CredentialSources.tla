------------------------- MODULE CredentialSources -------------------------
(***************************************************************************)
(* Where the credentials for a registry come from: the helper that the     *)
(* config names for it, the config's credential store, what the config     *)
(* itself holds, and the platform's default helper, in this order.  What a *)
(* helper program answers is an input, as it may be installed, log in, log *)
(* out or break at any time.                                               *)
(***************************************************************************)
CONSTANTS Hosts,         \* the registries' names
          IndexNames,    \* those that all mean Docker Hub
          IndexDockerIO, \* its name in configs and helpers
          Programs       \* the helper programs

ASSUME NamesAssumption ==
  /\ IndexNames \subseteq Hosts /\ IndexDockerIO \in Hosts
  /\ "default" \in Programs

\* Faulty: a name is used as it is.
ResolveNothing(host) == host

ResolveRegistryHost(host) == IF host \in IndexNames THEN IndexDockerIO ELSE host

-----------------------------------------------------------------------------
(* An AuthConfig is a user name and a secret; "of" is the registry that    *)
(* the secret is for.  An unsuccessful lookup has no AuthConfig.           *)

AuthConfigs == [ok : BOOLEAN, user : {"", "name", "<token>"},
                secret : {"none", "password", "token"}, of : Hosts \cup {"nobody"}]

Failed == [ok |-> FALSE, user |-> "", secret |-> "none", of |-> "nobody"]
Nothing == [Failed EXCEPT !.ok = TRUE]
Password(host) == [ok |-> TRUE, user |-> "name", secret |-> "password", of |-> host]
\* A token has no user name, whether a helper or the config holds it.
Token(host) == [ok |-> TRUE, user |-> "", secret |-> "token", of |-> host]

\* What happens when a helper program is looked up and run.
Answers == {"notInstalled", "lookupFails", "notFound", "noServerURL", "broken",
            "password", "token"}

\* A helper without the program, or without the credentials, is no error.
CredentialsFromHelper(answer, host) ==
  CASE answer \in {"notInstalled", "notFound"}               -> Nothing
    [] answer \in {"lookupFails", "noServerURL", "broken"}   -> Failed
    [] answer = "password"                                   -> Password(host)
    [] answer = "token"                                      -> Token(host)

\* The fields that an entry of the config's "auths" may have; "badAuth" is an auth that
\* does not decode to a user name and a password.
Fields == {"identityToken", "username", "password", "auth", "badAuth"}

\* Does the entry decide, without the default helper?
Decides(fields) ==
  \/ fields \cap {"identityToken", "auth", "badAuth"} # {}
  \/ {"username", "password"} \subseteq fields

ProcessStored(fields, host) ==
  CASE "identityToken" \in fields                    -> Token(host)
    [] "identityToken" \notin fields
         /\ {"username", "password"} \subseteq fields -> Password(host)
    [] OTHER -> IF "badAuth" \in fields THEN Failed ELSE Password(host)

-----------------------------------------------------------------------------
(* The order of the sources, for a config whose "helpers" and "stored" are *)
(* functions on some of the hosts and whose "store" is a program or        *)
(* "none".  A source is asked in a step of its own.                        *)

Sources == {"helper", "store", "default"}

\* The helpers and the store that a config names are programs, installed or not.
NamesPrograms(config) ==
  /\ \A host \in DOMAIN config.helpers : config.helpers[host] \in Programs
  /\ config.store \in Programs \cup {"none"}

FromConfig(config, host) ==
  IF host \in DOMAIN config.stored /\ Decides(config.stored[host])
  THEN [source |-> "none", creds |-> ProcessStored(config.stored[host], host)]
  ELSE [source |-> "default", creds |-> Nothing]

\* Which source to ask first, or what is known without asking.
FirstSource(config, host) ==
  CASE host \in DOMAIN config.helpers -> [source |-> "helper", creds |-> Nothing]
    [] host \notin DOMAIN config.helpers /\ config.store # "none"
                                      -> [source |-> "store", creds |-> Nothing]
    [] OTHER                          -> FromConfig(config, host)

Program(config, source, host) ==
  CASE source = "helper"  -> config.helpers[host]
    [] source = "store"   -> config.store
    [] source = "default" -> "default"

\* What follows the answer of a source: a store that fails or has nothing is passed over,
\* the others are final.
NextSource(config, source, host, creds) ==
  IF source = "store" /\ creds.secret = "none" /\ creds.user = ""
  THEN FromConfig(config, host)
  ELSE [source |-> "none", creds |-> creds]

=============================================================================
