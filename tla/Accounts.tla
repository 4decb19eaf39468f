------------------------------ MODULE Accounts ------------------------------
(***************************************************************************)
(* External accounts: the OAuth flow in the browser (oauth_desktop.py,     *)
(* oauth_broker.py), the credential store, the identities and grants in    *)
(* memory and in two files (account_manager.py, account_store.py,          *)
(* account_access.py) and requests to a provider (service_adapters.py).    *)
(*                                                                         *)
(* A caller is a thread that executes an operation of the capability       *)
(* layer; nothing locks these structures.  A token set is the number of    *)
(* its refresh token: 1, 2, ... in the order the providers issue them.     *)
(***************************************************************************)
EXTENDS Naturals, FiniteSets

CONSTANTS
  Callers,        \* threads that may use accounts at once
  Accounts,       \* the identities the owner has at the providers
  Rotating,       \* those whose provider replaces the refresh token at every use
  MaxTokens,      \* bound on the refresh tokens issued
  MaxOperations,  \* bound on the operations begun
  AccountFaults   \* of "lost_answer", "store_fails", "crash"

ASSUME AccountsAssumption == Rotating \subseteq Accounts
ASSUME TokensAssumption == {MaxTokens, MaxOperations} \subseteq Nat

VARIABLES
  usable,     \* per account the refresh tokens its provider honours
  issued,     \* how many were issued
  keyring,    \* KeyringTokenStore: the token set stored for an account, 0 for none
  expired,    \* accounts whose stored access token has run out
  listed,     \* AccountServiceManager._identities
  listFile,   \* accounts.json
  grants,     \* AccountAccessRegistry._grants
  grantFile,  \* accounts_grants.json
  pending,    \* OAuthBroker._pending: "none", "open" or "old" per caller
  caller,     \* what each thread is doing
  begun,      \* operations begun so far
  superseded  \* history: refresh tokens another took the place of

provider == <<usable, issued>>
tokens == <<keyring, expired>>
files == <<listFile, grantFile>>
avars == <<provider, tokens, listed, grants, files, pending, caller, begun, superseded>>

NoGrant == [scopes |-> {}, enabled |-> FALSE]
Grants == [Accounts -> [scopes : SUBSET {"read", "write"}, enabled : BOOLEAN]]

(* A thread: its step, the account once known, the token set in hand, and  *)
(* what it read of a file or of the registry and is about to write.        *)
NoWork == [step |-> "idle"]
Caller(step, a, token, copy, then) ==
  [step |-> step, account |-> a, token |-> token, copy |-> copy, then |-> then]

Steps == {"identify", "keep", "register", "list", "grant", "save_grant", "enable",
          "save_enabled", "forget", "unlist", "unlisted", "drop", "dropped", "disable",
          "widen", "widened", "check", "load", "post", "store", "send"}

ATypeOK ==
  /\ usable \in [Accounts -> SUBSET (1..MaxTokens)] /\ issued \in 0..MaxTokens /\ begun \in 0..MaxOperations
  /\ keyring \in [Accounts -> 0..MaxTokens]
  /\ expired \subseteq Accounts /\ superseded \subseteq 1..MaxTokens
  /\ listed \subseteq Accounts /\ listFile \subseteq Accounts
  /\ grants \in Grants /\ grantFile \in Grants
  /\ pending \in [Callers -> {"none", "open", "old"}]
  /\ \A c \in Callers :
       \/ caller[c] = NoWork
       \/ caller[c] = [step |-> "browser"]
       \/ /\ caller[c].step \in Steps
          /\ caller[c].account \in Accounts /\ caller[c].token \in 0..MaxTokens
          /\ caller[c].then \in {"refresh", "read", "write", "connect"}

-----------------------------------------------------------------------------
Does(c, step) == caller[c].step = step
Then(c, step) == caller' = [caller EXCEPT ![c].step = step]
Ends(c) == caller' = [caller EXCEPT ![c] = NoWork]
Mine(c) == caller[c].account

(* What a call to the keyring or a file may do: raise, which ends the operation. *)
StoreFails(c) == "store_fails" \in AccountFaults /\ Ends(c)

Keeps(a, token) ==
  /\ keyring' = [keyring EXCEPT ![a] = token]
  /\ expired' = expired \ {a}

(* The token sets of an account that refreshes took from the keyring, or   *)
(* got for one they took, and have not stored yet.                         *)
UnderWay(a) ==
  {caller[c].token : c \in {d \in Callers : caller[d].step \in {"post", "store"} /\ Mine(d) = a}}

(* The stored token set, when another is stored and no refresh has it still. *)
Replaced(a) == {keyring[a]} \ ({0} \cup UnderWay(a))

-----------------------------------------------------------------------------
(* connect_account: the browser flow. *)

Purged == [c \in Callers |-> IF pending[c] = "old" THEN "none" ELSE pending[c]]

BeginConnect(c) ==
  /\ caller[c] = NoWork /\ begun < MaxOperations /\ begun' = begun + 1
  /\ pending' = [Purged EXCEPT ![c] = "open"]
  /\ caller' = [caller EXCEPT ![c] = [step |-> "browser"]]
  /\ UNCHANGED <<provider, tokens, listed, grants, files, superseded>>

(* pending_ttl_seconds have passed, in a flow or after one that failed. *)
Ages(c) ==
  /\ pending[c] = "open"
  /\ pending' = [pending EXCEPT ![c] = "old"]
  /\ UNCHANGED <<provider, tokens, listed, grants, files, caller, begun, superseded>>

(* No browser, no answer in time, a wrong state, or consent denied. *)
NoCallback(c) ==
  /\ Does(c, "browser") /\ Ends(c)
  /\ UNCHANGED <<provider, tokens, listed, grants, files, pending, begun, superseded>>

(* The owner has signed in to some account; the code is exchanged. *)
Exchange(c) ==
  /\ Does(c, "browser")
  /\ \/ /\ Purged[c] = "open" /\ issued < MaxTokens
        /\ issued' = issued + 1
        /\ \E a \in Accounts :
             /\ usable' = [usable EXCEPT ![a] = @ \cup {issued'}]
             /\ caller' = [caller EXCEPT ![c] = Caller("identify", a, issued', {}, "connect")]
        /\ pending' = [Purged EXCEPT ![c] = "none"]
     \/ Ends(c) /\ pending' = Purged /\ UNCHANGED provider
  /\ UNCHANGED <<tokens, listed, grants, files, begun, superseded>>

(* user_identity *)
Identify(c) ==
  /\ Does(c, "identify")
  /\ Then(c, "keep") \/ Ends(c)
  /\ UNCHANGED <<provider, tokens, listed, grants, files, pending, begun, superseded>>

(* save_initial *)
Keep(c) ==
  /\ Does(c, "keep")
  /\ \/ /\ Keeps(Mine(c), caller[c].token) /\ Then(c, "register")
        /\ superseded' = superseded \cup Replaced(Mine(c))
     \/ StoreFails(c) /\ UNCHANGED <<tokens, superseded>>
  /\ UNCHANGED <<provider, listed, grants, files, pending, begun>>

-----------------------------------------------------------------------------
(* Files: the content is read (or taken from memory), then replaced. *)

(* register_identity: memory, then AccountStore.upsert reads the file. *)
Register(c) ==
  /\ Does(c, "register")
  /\ listed' = listed \cup {Mine(c)}
  /\ caller' = [caller EXCEPT ![c].step = "list", ![c].copy = listFile \cup {Mine(c)}]
  /\ UNCHANGED <<provider, tokens, grants, files, pending, begun, superseded>>

Wrote(c, next) == caller' = [caller EXCEPT ![c].step = next, ![c].copy = {}]

WriteList(c, step, next) ==
  /\ Does(c, step)
  /\ \/ listFile' = caller[c].copy /\ Wrote(c, next)
     \/ StoreFails(c) /\ UNCHANGED listFile
  /\ UNCHANGED <<provider, tokens, listed, grants, grantFile, pending, begun, superseded>>

Granted(grant, scopes) ==
  IF grant = NoGrant THEN [scopes |-> scopes, enabled |-> TRUE]
  ELSE [grant EXCEPT !.scopes = @ \cup scopes]

(* A change of the registry, whose content save_grants is about to write. *)
Grant(c, step, scopes, next) ==
  /\ Does(c, step)
  /\ grants' = [grants EXCEPT ![Mine(c)] = Granted(@, scopes)]
  /\ caller' = [caller EXCEPT ![c].step = next, ![c].copy = grants']
  /\ UNCHANGED <<provider, tokens, listed, files, pending, begun, superseded>>

Enable(c) ==
  /\ Does(c, "enable")
  /\ grants' = [grants EXCEPT ![Mine(c)].enabled = TRUE]
  /\ caller' = [caller EXCEPT ![c].step = "save_enabled", ![c].copy = grants']
  /\ UNCHANGED <<provider, tokens, listed, files, pending, begun, superseded>>

WriteGrants(c, step, next) ==
  /\ Does(c, step)
  /\ \/ /\ grantFile' = caller[c].copy
        /\ IF next = "idle" THEN Ends(c) ELSE Wrote(c, next)
     \/ StoreFails(c) /\ UNCHANGED grantFile
  /\ UNCHANGED <<provider, tokens, listed, grants, listFile, pending, begun, superseded>>

ConnectStep(c) ==
  \/ NoCallback(c) \/ Exchange(c) \/ Identify(c) \/ Keep(c) \/ Register(c)
  \/ WriteList(c, "list", "grant") \/ Grant(c, "grant", {"read"}, "save_grant")
  \/ WriteGrants(c, "save_grant", "enable") \/ Enable(c)
  \/ WriteGrants(c, "save_enabled", "idle")

-----------------------------------------------------------------------------
(* Operations on an account that AccountSelector finds. *)

Select(c, a, step, then) ==
  /\ caller[c] = NoWork /\ a \in listed /\ begun < MaxOperations
  /\ caller' = [caller EXCEPT ![c] = Caller(step, a, 0, {}, then)]
  /\ begun' = begun + 1
  /\ UNCHANGED <<provider, tokens, listed, grants, files, pending, superseded>>

BeginDisconnect(c, a) == Select(c, a, "forget", "connect")
BeginRefresh(c, a) == Select(c, a, "load", "refresh")

(* service_action: a write is refused unless the caller confirmed it, and  *)
(* then gets the scope it lacks.                                           *)
BeginRead(c, a) == Select(c, a, "check", "read")
BeginWrite(c, a) ==
  Select(c, a, IF grants[a].enabled /\ "write" \in grants[a].scopes THEN "check" ELSE "widen",
         "write")

Forget(c) ==
  /\ Does(c, "forget")
  /\ \/ keyring' = [keyring EXCEPT ![Mine(c)] = 0] /\ Then(c, "unlist")
     \/ StoreFails(c) /\ UNCHANGED keyring
  /\ UNCHANGED <<provider, expired, listed, grants, files, pending, begun, superseded>>

(* The identity leaves memory, then AccountStore.delete reads the file. *)
Unlist(c) ==
  /\ Does(c, "unlist")
  /\ listed' = listed \ {Mine(c)}
  /\ caller' = [caller EXCEPT ![c].step = "unlisted", ![c].copy = listFile \ {Mine(c)}]
  /\ UNCHANGED <<provider, tokens, grants, files, pending, begun, superseded>>

(* delete_grant reads the file, not the registry. *)
DropGrant(c) ==
  /\ Does(c, "drop")
  /\ caller' = [caller EXCEPT ![c].step = "dropped",
                              ![c].copy = [grantFile EXCEPT ![Mine(c)] = NoGrant]]
  /\ UNCHANGED <<provider, tokens, listed, grants, files, pending, begun, superseded>>

(* disable raises for an account without an enabled grant: nothing is left to do. *)
Disable(c) ==
  /\ Does(c, "disable") /\ Ends(c)
  /\ grants' = [grants EXCEPT ![Mine(c)].enabled = FALSE]
  /\ UNCHANGED <<provider, tokens, listed, files, pending, begun, superseded>>

DisconnectStep(c) ==
  \/ Forget(c) \/ Unlist(c) \/ WriteList(c, "unlisted", "drop") \/ DropGrant(c)
  \/ WriteGrants(c, "dropped", "disable") \/ Disable(c)

-----------------------------------------------------------------------------
(* Tokens: SecureTokenBroker.get_access_token, OAuthBroker.refresh. *)

(* AccountAccessRegistry.require *)
Check(c) ==
  /\ Does(c, "check")
  /\ IF grants[Mine(c)].enabled /\ caller[c].then \in grants[Mine(c)].scopes
       THEN Then(c, "load") ELSE Ends(c)
  /\ UNCHANGED <<provider, tokens, listed, grants, files, pending, begun, superseded>>

LoadToken(c) ==
  /\ Does(c, "load")
  /\ LET token == keyring[Mine(c)] IN
       \/ token = 0 /\ Ends(c)
       \/ /\ token # 0
          /\ caller' = [caller EXCEPT
               ![c].step = IF caller[c].then = "refresh" \/ Mine(c) \in expired
                             THEN "post" ELSE "send",
               ![c].token = token]
       \/ StoreFails(c)
  /\ UNCHANGED <<provider, tokens, listed, grants, files, pending, begun, superseded>>

(* What is stored after a refresh: the new token if the answer has one.    *)
(* KeptOld: the old one, as if the answer never had one.                    *)
KeptOld(old, answer) == old
Kept(old, answer) == IF answer = 0 THEN old ELSE answer

PostRefresh(c) ==
  /\ Does(c, "post")
  /\ LET a == Mine(c)
         old == caller[c].token
         answer == IF a \in Rotating THEN issued + 1 ELSE 0
     IN \/ /\ old \in usable[a] /\ (a \in Rotating => issued < MaxTokens)
           /\ issued' = IF a \in Rotating THEN answer ELSE issued
           /\ usable' = [usable EXCEPT ![a] =
                           IF a \in Rotating THEN (@ \ {old}) \cup {answer} ELSE @]
           /\ \/ caller' = [caller EXCEPT ![c].step = "store", ![c].token = Kept(old, answer),
                                           ![c].copy = IF a \in Rotating THEN {old} ELSE {}]
              \/ "lost_answer" \in AccountFaults /\ Ends(c)
        \/ Ends(c) /\ UNCHANGED provider
  /\ UNCHANGED <<tokens, listed, grants, files, pending, begun, superseded>>

StoreRefreshed(c) ==
  /\ Does(c, "store")
  /\ \/ /\ Keeps(Mine(c), caller[c].token)
        /\ IF caller[c].then = "refresh" THEN Ends(c) ELSE Wrote(c, "send")
        /\ superseded' = superseded \cup caller[c].copy \cup Replaced(Mine(c))
     \/ StoreFails(c) /\ UNCHANGED <<tokens, superseded>>
  /\ UNCHANGED <<provider, listed, grants, files, pending, begun>>

(* The provider answers, refuses, or does not answer within the time limit. *)
Send(c) ==
  /\ Does(c, "send") /\ Ends(c)
  /\ UNCHANGED <<provider, tokens, listed, grants, files, pending, begun, superseded>>

RequestStep(c) ==
  \/ Grant(c, "widen", {"write"}, "widened") \/ WriteGrants(c, "widened", "check")
  \/ Check(c) \/ LoadToken(c) \/ PostRefresh(c) \/ StoreRefreshed(c) \/ Send(c)

-----------------------------------------------------------------------------
(* The environment *)

AccessExpires(a) ==
  /\ keyring[a] # 0 /\ a \notin expired
  /\ expired' = expired \cup {a}
  /\ UNCHANGED <<provider, keyring, listed, grants, files, pending, caller, begun, superseded>>

(* The owner withdraws consent at the provider. *)
Withdraw(a) ==
  /\ usable[a] # {}
  /\ usable' = [usable EXCEPT ![a] = {}]
  /\ UNCHANGED <<issued, tokens, listed, grants, files, pending, caller, begun, superseded>>

(* The process ends and starts again.  The runtime hands the manager the   *)
(* registry of its environment variable, so the grants of the file are not *)
(* used.                                                                   *)
Restart ==
  /\ "crash" \in AccountFaults
  /\ caller' = [c \in Callers |-> NoWork] /\ pending' = [c \in Callers |-> "none"]
  /\ listed' = listFile
  /\ grants' = [a \in Accounts |-> NoGrant]
  /\ UNCHANGED <<provider, tokens, files, begun, superseded>>

AInit ==
  /\ usable = [a \in Accounts |-> {}] /\ issued = 0
  /\ keyring = [a \in Accounts |-> 0] /\ expired = {} /\ superseded = {} /\ begun = 0
  /\ listed = {} /\ listFile = {}
  /\ grants = [a \in Accounts |-> NoGrant] /\ grantFile = [a \in Accounts |-> NoGrant]
  /\ pending = [c \in Callers |-> "none"] /\ caller = [c \in Callers |-> NoWork]

ANext ==
  \/ \E c \in Callers : BeginConnect(c) \/ Ages(c) \/ ConnectStep(c) \/ DisconnectStep(c)
                          \/ RequestStep(c)
  \/ \E c \in Callers, a \in Accounts :
       BeginDisconnect(c, a) \/ BeginRefresh(c, a) \/ BeginRead(c, a) \/ BeginWrite(c, a)
  \/ \E a \in Accounts : AccessExpires(a) \/ Withdraw(a)
  \/ Restart

(* Refreshes, reconnections and disconnections of several threads, which   *)
(* nothing orders (OAuthBroker.refresh), never put back a refresh token    *)
(* that the stored one was obtained with, nor one whose place another took *)
(* while no refresh of it was under way: not even the thread that stores   *)
(* last, when answers are lost and the store fails.  A refresh that took   *)
(* its token before the account was connected again, from a provider that  *)
(* lets it be used again, does store it over the newer one                 *)
(* (oauth_broker.py:283).                                                  *)
NoTokenComesBack == \A a \in Accounts : keyring[a] \notin superseded

(* No run checks the following one, see the README, other disagreements.   *)
(* An account keeps the grant its owner gave it when the process starts    *)
(* again: account_store.py, "Persist account labels/IDs and permission     *)
(* metadata".  Restart breaks it with one caller and {"crash"}.            *)
GrantsSurviveRestart ==
  (\A c \in Callers : caller[c] = NoWork) =>
    \A a \in listed : grantFile[a].enabled => grants[a].enabled

ASpec == AInit /\ [][ANext]_avars

=============================================================================
