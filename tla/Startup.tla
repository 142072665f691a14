------------------------------- MODULE Startup -------------------------------
(***************************************************************************)
(* The start of a server process (server.py, main): the configuration and, *)
(* for version 3, its credentials from Vault (config.py), then the journal *)
(* (JournalOpen), then the trust store of the inbox client (tls.py).  Each *)
(* Vault read is a run of the vault CLI of its own, and between two of     *)
(* them an operator may rotate an entry or the session may change.         *)
(***************************************************************************)
EXTENDS JournalOpen

CONSTANT MaxRotations  \* BOUND: no Vault entry gets a version beyond this

ASSUME StartupAssumption == MaxRotations \in Nat \ {0}

VARIABLES
  config,  \* where the configuration file has the credentials
  vault,   \* the version of each entry in Vault
  past,    \* history: the versions that were in Vault together, at some time
  load,    \* how far each process is with its configuration
  cred     \* the version of each entry its credentials come from, 0 if unread

startupVars == <<config, vault, past, load, cred>>
allVars == <<vars, startupVars>>

\* "file": configuration version 2; "vault": version 3.
Configs == {"file", "vault"}

\* The webhook's URL and sender key; the inbox's requestor token.
Entries == {"webhook", "inbox"}

First == [e \in Entries |-> 1]
Unread == [e \in Entries |-> 0]

Loading == {"file", "session", "webhook", "inbox", "ready"}

StartupInit ==
  /\ Init
  /\ config \in Configs
  /\ vault = First
  /\ past = {First}
  /\ load = [p \in Processes |-> "none"]
  /\ cred = [p \in Processes |-> Unread]

Loads(p, next) == load' = [load EXCEPT ![p] = next]

-----------------------------------------------------------------------------
(* Config.load                                                             *)

Begin(p) ==
  /\ pc[p] \in Ended
  /\ load[p] = "none"
  /\ Loads(p, "file")
  /\ UNCHANGED <<vars, config, vault, past, cred>>

\* Version 2 holds the credentials itself; version 3 names where they are.
ReadConfig(p) ==
  /\ load[p] = "file"
  /\ IF config = "file"
       THEN Loads(p, "ready") /\ cred' = [cred EXCEPT ![p] = First]
       ELSE Loads(p, "session") /\ UNCHANGED cred
  /\ UNCHANGED <<vars, config, vault, past>>

(* A plausible slip: the inbox entry is fetched before the webhook's.      *)
FollowsSwapped(stage) ==
  CASE stage = "session" -> "inbox"
    [] stage = "inbox"   -> "webhook"
    [] OTHER             -> "ready"

\* The order of _vault_credentials.
Follows(stage) ==
  CASE stage = "session" -> "webhook"
    [] stage = "webhook" -> "inbox"
    [] OTHER             -> "ready"

\* vault token lookup shows an active session that is not root's.
ReadSession(p) ==
  /\ load[p] = "session"
  /\ Loads(p, Follows("session"))
  /\ UNCHANGED <<vars, config, vault, past, cred>>

\* vault kv get <entry>: what Vault holds now, whatever the other was read at.
ReadEntry(p, e) ==
  /\ load[p] = e
  /\ Loads(p, Follows(e))
  /\ cred' = [cred EXCEPT ![p][e] = vault[e]]
  /\ UNCHANGED <<vars, config, vault, past>>

\* ConfigError: a file that is not private or lacks a key, an unsafe value, a
\* session that is root's or over, a CLI that fails or takes 20 seconds, an
\* entry without its fields.
LoadFails(p) ==
  /\ load[p] \in {"file", "session", "webhook", "inbox"}
  /\ Loads(p, "none")
  /\ cred' = [cred EXCEPT ![p] = Unread]
  /\ UNCHANGED <<vars, config, vault, past>>

-----------------------------------------------------------------------------
(* The journal, then the server.                                           *)

OpenJournal(p) ==
  /\ load[p] = "ready"
  /\ Launch(p)
  /\ Loads(p, "none")
  /\ UNCHANGED <<config, vault, past, cred>>

\* A process keeps its credentials in its memory, until it ends.
Keeps(p) ==
  /\ cred' = [cred EXCEPT ![p] = IF pc'[p] \in Ended THEN Unread ELSE @]
  /\ UNCHANGED <<config, vault, past, load>>

\* verified_context: the CA certificates of the default store, else those
\* of the platform's bundle, else InboxError.
CreateServer(p) == (Serve(p) \/ Untrusted(p)) /\ Keeps(p)

\* The operator stores a new version of an entry; without a reader of Vault
\* it makes no difference.
Rotate(e) ==
  /\ config = "vault"
  /\ vault[e] < MaxRotations
  /\ vault' = [vault EXCEPT ![e] = @ + 1]
  /\ past' = past \union {vault'}
  /\ UNCHANGED <<vars, config, load, cred>>

-----------------------------------------------------------------------------
Configures(p) ==
  \/ ReadConfig(p) \/ ReadSession(p)
  \/ \E e \in Entries : ReadEntry(p, e)
  \/ LoadFails(p)

Journals(p) == (Opens(p) \/ TimesOut(p)) /\ Keeps(p)

Disturbs(p) == (DatabaseFails(p) \/ Crash(p) \/ Works(p)) /\ Keeps(p)

Proceeds(p) == Configures(p) \/ OpenJournal(p) \/ Journals(p) \/ CreateServer(p)

StartupNext ==
  \/ \E p \in Processes : Begin(p) \/ Proceeds(p) \/ Disturbs(p)
  \/ \E e \in Entries : Rotate(e)

StartupSpec == StartupInit /\ [][StartupNext]_allVars

\* A process runs, each run of the CLI is given 20 seconds, and a statement
\* waits 5 seconds at most for the lock.
FairStartup == StartupSpec /\ \A p \in Processes : WF_allVars(Proceeds(p))

-----------------------------------------------------------------------------
StartupTypeOK ==
  /\ TypeOK
  /\ config \in Configs
  /\ vault \in [Entries -> 1 .. MaxRotations]
  /\ past \subseteq [Entries -> 1 .. MaxRotations]
  /\ load \in [Processes -> Loading \union {"none"}]
  /\ cred \in [Processes -> [Entries -> 0 .. MaxRotations]]

\* c were in Vault together, or the webhook's entry was renewed before the
\* inbox's, after the former was read.
Tolerable(c) ==
  c \in past \/ \E v \in past : v.webhook > c.webhook /\ v.inbox < c.inbox

(* Nothing starts with part of the credentials, and an operator can renew  *)
(* both entries under a starting server: if the inbox's is renewed before  *)
(* the webhook's, the server has credentials that were in Vault together,  *)
(* though it reads the entries one by one.  In the other order it may post *)
(* with the old webhook and poll with the new token.                       *)
ServesConfigured ==
  \A p \in Processes : pc[p] \in Starting \union {"serving"} =>
    cred[p].webhook # 0 /\ cred[p].inbox # 0 /\ Tolerable(cred[p])

(* Every start ends: it serves, or it is refused, whatever other processes *)
(* do to the lock, the journal and Vault meanwhile.                        *)
EveryStartEnds ==
  \A p \in Processes :
    load[p] \in Loading \/ pc[p] \in Starting
      ~> load[p] \notin Loading /\ pc[p] \notin Starting
=============================================================================
