------------------------------- MODULE AuthRefresh -------------------------------
(***************************************************************************)
(* The refresh of the Codex credentials before each launch of a Codex      *)
(* agent: RefreshAuthFile of internal/proxies/openai/authfile.go and the   *)
(* Credential of credential.go it builds.                                  *)
(*                                                                         *)
(* Launches run concurrently, in one demesne-mcp process or in several     *)
(* (there is one per Claude Code session), and share auth.json.  Each      *)
(* builds a Credential of its own, so the mutex inside a Credential never  *)
(* orders two launches, and it is not modelled.                            *)
(*                                                                         *)
(* The token endpoint is external.  It honours the current refresh token   *)
(* only, and when it does it either rotates the token or answers without a *)
(* new one, which credential.go takes too.  A token set is represented by  *)
(* the number of its refresh token and the time it was born: it needs a    *)
(* refresh when that lies in an earlier epoch than now, which stands for   *)
(* an old last_refresh and for an id_token about to expire.                *)
(***************************************************************************)
EXTENDS Naturals

CONSTANTS
  Launches,      \* calls of RefreshAuthFile
  Empty,         \* the content of a file that was only created
  MaxEpoch,      \* bound on the epochs
  MaxErrors,     \* bound on failed requests, lost replies and failed file operations
  MaxCrashes     \* bound on the launches whose process dies

ASSUME EmptyAssumption     == Empty \notin [refresh : Nat, born : Nat]
ASSUME BoundsAssumption    == MaxEpoch \in Nat /\ MaxErrors \in Nat /\ MaxCrashes \in Nat

VARIABLES
  file,          \* the content of auth.json
  temp,          \* the content of the temp file of each launch that has one
  epoch,         \* the time
  current,       \* the refresh token the endpoint honours
  pc,            \* where each launch is
  tokens,        \* the token set of each launch's Credential
  reply,         \* what the endpoint answered it: a new refresh token, or 0 for none
  errors, crashes

faultVars == <<errors, crashes>>
vars      == <<file, temp, epoch, current, pc, tokens, reply, faultVars>>

-------------------------------------------------------------------------------
TokenSets == [refresh : Nat, born : Nat]
NoTokens  == [refresh |-> 0, born |-> 0]

\* The endpoint's answers, of which only the refresh token matters: the response's
\* field is optional, and 0 stands for its absence.
Replies   == [got : BOOLEAN, refresh : Nat]
NoAnswer  == [got |-> FALSE, refresh |-> 0]
Rotated(n) == [got |-> TRUE, refresh |-> n]
Unrotated  == [got |-> TRUE, refresh |-> 0]

\* cred.needsRefreshLocked
needsRefresh(ts) == ts.born < epoch

Underway == {"post", "granted", "create", "fill", "rename"}
Active(l) == pc[l] \in Underway
HasTemp(l) == l \in DOMAIN temp

Init ==
  /\ file    = [refresh |-> 1, born |-> 0]
  /\ temp    = [l \in {} |-> Empty]
  /\ epoch   = 0
  /\ current = 1
  /\ pc      = [l \in Launches |-> "idle"]
  /\ tokens  = [l \in Launches |-> NoTokens]
  /\ reply   = [l \in Launches |-> NoAnswer]
  /\ errors  = 0
  /\ crashes = 0

Goto(l, where)   == pc' = [pc EXCEPT ![l] = where]
Remove(l)        == temp' = [k \in DOMAIN temp \ {l} |-> temp[k]]
Write(l, data)   == temp' = [k \in DOMAIN temp \cup {l} |-> IF k = l THEN data ELSE temp[k]]

-------------------------------------------------------------------------------
(* refreshAuthFile and cred.EnsureFresh *)

\* The file is read, and its tokens are returned if they are fresh.
Read(l) ==
  /\ pc[l] = "idle"
  /\ tokens' = [tokens EXCEPT ![l] = file]
  /\ Goto(l, IF needsRefresh(file) THEN "post" ELSE "ok")
  /\ UNCHANGED <<file, temp, epoch, current, reply, faultVars>>

\* The endpoint honours the token and answers.
Grant(l) ==
  /\ pc[l] = "post" /\ tokens[l].refresh = current
  /\ \/ /\ current' = current + 1
        /\ reply' = [reply EXCEPT ![l] = Rotated(current + 1)]
     \/ /\ current' = current
        /\ reply' = [reply EXCEPT ![l] = Unrotated]
  /\ Goto(l, "granted")
  /\ UNCHANGED <<file, temp, epoch, tokens, faultVars>>

\* Mutant: the error is dropped and the old tokens are written back.
RefuseIgnored(l) ==
  /\ pc[l] = "post" /\ tokens[l].refresh # current
  /\ Goto(l, "create")
  /\ UNCHANGED <<file, temp, epoch, current, tokens, reply, faultVars>>
\* The endpoint refuses a token that was spent.
Refuse(l) ==
  /\ pc[l] = "post" /\ tokens[l].refresh # current
  /\ Goto(l, "failed")
  /\ UNCHANGED <<file, temp, epoch, current, tokens, reply, faultVars>>

\* Mutant: the refresh token of the reply is not kept.
ReceiveAccessOnly(l) ==
  /\ pc[l] = "granted"
  /\ tokens' = [tokens EXCEPT ![l] = [refresh |-> @.refresh, born |-> epoch]]
  /\ Goto(l, "create")
  /\ UNCHANGED <<file, temp, epoch, current, reply, faultVars>>
\* The reply arrives; without a refresh token in it the old one is kept.
Receive(l) ==
  /\ pc[l] = "granted"
  /\ tokens' = [tokens EXCEPT ![l] =
       [refresh |-> IF reply[l] = Unrotated THEN @.refresh ELSE reply[l].refresh,
        born    |-> epoch]]
  /\ Goto(l, "create")
  /\ UNCHANGED <<file, temp, epoch, current, reply, faultVars>>

Mishap == errors < MaxErrors /\ errors' = errors + 1 /\ UNCHANGED crashes

\* The file cannot be read, the request fails, or its reply is lost or garbled;
\* the endpoint may have honoured the token or not.
RequestFails(l) ==
  /\ pc[l] \in {"idle", "post", "granted"} /\ Mishap
  /\ Goto(l, "failed")
  /\ UNCHANGED <<file, temp, epoch, current, tokens, reply>>

-------------------------------------------------------------------------------
(* writeFileAtomic *)

CreateTemp(l) ==
  /\ pc[l] = "create"
  /\ Write(l, Empty)
  /\ Goto(l, "fill")
  /\ UNCHANGED <<file, epoch, current, tokens, reply, faultVars>>

CreateFails(l) ==
  /\ pc[l] = "create" /\ Mishap
  /\ Goto(l, "failed")
  /\ UNCHANGED <<file, temp, epoch, current, tokens, reply>>

\* writeAndClose
Fill(l) ==
  /\ pc[l] = "fill"
  /\ Write(l, tokens[l])
  /\ Goto(l, "rename")
  /\ UNCHANGED <<file, epoch, current, tokens, reply, faultVars>>

\* Mutant: the error of the write is dropped.
FillFailsIgnored(l) ==
  /\ pc[l] = "fill" /\ Mishap
  /\ Goto(l, "rename")
  /\ UNCHANGED <<file, temp, epoch, current, tokens, reply>>
FillFails(l) ==
  /\ pc[l] = "fill" /\ Mishap
  /\ Remove(l)
  /\ Goto(l, "failed")
  /\ UNCHANGED <<file, epoch, current, tokens, reply>>

Rename(l) ==
  /\ pc[l] = "rename"
  /\ file' = temp[l]
  /\ Remove(l)
  /\ Goto(l, "ok")
  /\ UNCHANGED <<epoch, current, tokens, reply, faultVars>>

RenameFails(l) ==
  /\ pc[l] = "rename" /\ Mishap
  /\ Remove(l)
  /\ Goto(l, "failed")
  /\ UNCHANGED <<file, epoch, current, tokens, reply>>

-------------------------------------------------------------------------------
(* The process dies; time passes *)

Crash(l) ==
  /\ Active(l) /\ crashes < MaxCrashes
  /\ crashes' = crashes + 1
  /\ Goto(l, "crashed")
  /\ UNCHANGED <<file, temp, epoch, current, tokens, reply, errors>>

Expire ==
  /\ epoch < MaxEpoch
  /\ epoch' = epoch + 1
  /\ UNCHANGED <<file, temp, current, pc, tokens, reply, faultVars>>

Request(l)    == Read(l) \/ Grant(l) \/ Refuse(l) \/ Receive(l) \/ RequestFails(l)
WriteAtomic(l) ==
  \/ CreateTemp(l) \/ CreateFails(l) \/ Fill(l) \/ FillFails(l)
  \/ Rename(l) \/ RenameFails(l)
Next ==
  \/ \E l \in Launches : Request(l) \/ WriteAtomic(l) \/ Crash(l)
  \/ Expire

Spec == Init /\ [][Next]_vars

-------------------------------------------------------------------------------
(* Properties *)

\* Every variable keeps its type; auth.json, in particular, always holds a whole
\* token set, whatever fails and whoever dies while it is written.
TypeOK ==
  /\ file \in TokenSets
  /\ DOMAIN temp \subseteq Launches
  /\ \A l \in DOMAIN temp : temp[l] \in TokenSets \cup {Empty}
  /\ epoch \in Nat /\ current \in Nat
  /\ pc \in [Launches -> Underway \cup {"idle", "ok", "failed", "crashed"}]
  /\ tokens \in [Launches -> TokenSets]
  /\ reply \in [Launches -> Replies]
  /\ errors \in 0..MaxErrors /\ crashes \in 0..MaxCrashes

\* The token in the file is a spent one for two reasons only.  The launch that was
\* given the next one is under way, or failed or died before it could write it.  Or
\* a launch that was answered without a new one has written back the one it read,
\* after others had rotated it (credential.go:206, authfile.go:68).  In particular,
\* launches that all get through lose the token only if one of them is answered so.
TokenIsKept ==
  file.refresh # current =>
    \E l \in Launches :
      \/ reply[l] = Rotated(current) /\ pc[l] \notin {"idle", "post", "ok"}
      \/ reply[l] = Unrotated /\ pc[l] = "ok" /\ file = tokens[l]

\* However late it gets to write, a launch that was given a new refresh token never
\* replaces a newer one in the file, and one that was refused or failed replaces none:
\* the file goes back to an older token only by the rename of a launch that was
\* answered without a new one.
OlderOnlyUnrotated ==
  [][file'.refresh < file.refresh =>
       \E l \in Launches :
         pc[l] = "rename" /\ pc'[l] = "ok" /\ reply[l] = Unrotated]_vars

\* "no leftover temp files" (authfile.go:137): a launch that returns leaves none,
\* on any path.
NoLeftover == \A l \in DOMAIN temp : pc[l] \in {"fill", "rename", "crashed"}

\* The write is atomic (writeFileAtomic): whatever fails or dies half-way, auth.json
\* holds a whole token set, and no launch that returns leaves anything beside it.
WriteIsAtomic == file \in TokenSets /\ NoLeftover
===============================================================================
