------------------------- MODULE PagingCredentials -------------------------
(***************************************************************************)
(* The reloader of the paging credentials (config_reloaders.py): a thread  *)
(* that reads Secret Manager every five minutes and swaps the dictionary   *)
(* the router reads.                                                       *)
(***************************************************************************)

CONSTANTS
  Secrets,  \* the names in the dictionary
  Webhook   \* the one the service tells its own failures with

ASSUME CredAssumption == Webhook \in Secrets

VARIABLES
  creds,    \* the names the process has a value for (self._credentials)
  poller,   \* the polling thread: "none", "waiting" or "fetching"
  brought   \* history: of this run's reads that brought anything, the last
            \* brought the webhook

credVars == <<creds, poller, brought>>

CredTypeOK == /\ creds \subseteq Secrets
              /\ poller \in {"none", "waiting", "fetching"}
              /\ brought \in BOOLEAN

CredInit == creds = {} /\ poller = "none" /\ brought = FALSE

\* _fetch never raises: a call that fails reads as an empty dictionary, and a
\* secret that is not there, or could not be read, is left out of it.
Fetched == SUBSET Secrets

\* start(): whatever the first fetch brought is taken, and if it brought
\* nothing no thread is started.
StartReloader(found) ==
  /\ creds' = found
  /\ brought' = (Webhook \in found)
  /\ poller' = IF found = {} THEN "none" ELSE "waiting"

Wake == /\ poller = "waiting"
        /\ poller' = "fetching"
        /\ UNCHANGED <<creds, brought>>

\* An underscored operator is a wrong version of the definition it is named
\* after that the properties must tell apart.
Kept_Replaced(found) == found

\* _refresh(): an empty result keeps the old credentials; any other replaces
\* them, and a secret it came without is gone.
Kept(found) == IF found = {} THEN creds ELSE found

\* _poll_loop goes on whatever the refresh brought.
Refresh == /\ poller = "fetching"
           /\ \E found \in Fetched :
                /\ creds' = Kept(found)
                /\ brought' = IF found = {} THEN brought ELSE Webhook \in found
           /\ poller' = "waiting"

\* stop() joins the thread; the process is over when it returns.
StopReloader == poller' = "none" /\ UNCHANGED <<creds, brought>>

Reloads == Wake \/ Refresh
============================================================================
