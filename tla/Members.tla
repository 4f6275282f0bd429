-------------------------------- MODULE Members --------------------------------
(***************************************************************************)
(* Who may do what in a project: the rows of permissions, changed by the   *)
(* owner and by users who accept an invite link, each handler reading      *)
(* before it commits; and what the pages of the users make of it, which    *)
(* ask for the members every ten seconds (useProjectRole).                 *)
(***************************************************************************)
EXTENDS Integers

CONSTANTS
  Users,          \* everybody but the owner
  MaxUses,        \* max_uses of invite links
  MaxChanges      \* bound on what the owner does

ASSUME MembersAssumption == MaxUses \in Nat \ {0} /\ MaxChanges \in Nat

VARIABLES
  project,        \* whether the project is still there
  perms,          \* the role of each user
  link,           \* an invite link
  change, accepts,          \* handlers under way
  changesMade,
  present, known, status, fetching   \* the pages and their query

memberServerVars == <<project, perms, link, change, accepts, changesMade>>
memberPageVars == <<present, known, status, fetching>>
memberVars == <<memberServerVars, memberPageVars>>

Roles == {"viewer", "commenter", "editor"}
NoRole == "none"
Rank(role) == CASE role = "viewer" -> 0 [] role = "commenter" -> 1 [] role = "editor" -> 2
NoLink == [role |-> NoRole, uses |-> 0, expired |-> FALSE]
NoChange == [user |-> NoRole, op |-> "none", role |-> NoRole, found |-> NoRole]
NoAccept == [step |-> "none", found |-> NoRole, uses |-> 0]

MembersInit ==
  /\ project = TRUE
  /\ \E r \in Roles : perms = [u \in Users |-> r]
  /\ link = NoLink /\ change = NoChange /\ accepts = [u \in Users |-> NoAccept] /\ changesMade = 0
  /\ present = [u \in Users |-> FALSE] /\ known = [u \in Users |-> "unknown"]
  /\ status = [u \in Users |-> "pending"] /\ fetching = [u \in Users |-> FALSE]

-----------------------------------------------------------------------------
(* The owner, in CollabModal.                                              *)

OwnerActs ==
  /\ project /\ change = NoChange
  /\ changesMade < MaxChanges /\ changesMade' = changesMade + 1

\* add_member, update_member and remove_member look for the row first.
ChangeBegins(u, op, role) ==
  /\ OwnerActs
  /\ op # "add" => perms[u] # NoRole
  /\ op = "remove" <=> role = NoRole
  /\ change' = [user |-> u, op |-> op, role |-> role, found |-> perms[u]]
  /\ UNCHANGED <<project, perms, link, accepts, memberPageVars>>

(* The row is written, unless it has appeared or gone meanwhile or was as  *)
(* it should be already.                                                   *)
ChangeCommits ==
  /\ change # NoChange /\ change' = NoChange
  /\ LET u == change.user
         applies == (change.found = NoRole) = (perms[u] = NoRole)
         writes == change.op # "update" \/ change.role # change.found
     IN  perms' = IF applies /\ writes THEN [perms EXCEPT ![u] = change.role] ELSE perms
  /\ UNCHANGED <<project, link, accepts, changesMade, memberPageVars>>

CreateLink(role) ==
  /\ OwnerActs /\ link = NoLink
  /\ link' = [NoLink EXCEPT !.role = role]
  /\ UNCHANGED <<project, perms, change, accepts, memberPageVars>>

RevokeLink ==
  /\ OwnerActs /\ link # NoLink
  /\ link' = NoLink
  /\ UNCHANGED <<project, perms, change, accepts, memberPageVars>>

DeleteProject ==
  /\ OwnerActs
  /\ project' = FALSE /\ link' = NoLink /\ perms' = [u \in Users |-> NoRole]
  /\ UNCHANGED <<change, accepts, memberPageVars>>

LinkExpires ==
  /\ link # NoLink /\ ~link.expired
  /\ link' = [link EXCEPT !.expired = TRUE]
  /\ UNCHANGED <<project, perms, change, accepts, changesMade, memberPageVars>>

-----------------------------------------------------------------------------
(* A user accepts: the link is checked, and the row of the user is read.   *)

LinkIsValid == link # NoLink /\ ~link.expired /\ link.uses < MaxUses

AcceptBegins(u) ==
  /\ accepts[u] = NoAccept /\ LinkIsValid
  /\ accepts' = [accepts EXCEPT ![u] = [step |-> "commit", found |-> perms[u], uses |-> link.uses]]
  /\ UNCHANGED <<project, perms, link, change, changesMade, memberPageVars>>

(* accept_invite: the role of the link if it is no lower than the one that *)
(* was found, and one use more than were found. Rows that have gone or     *)
(* appeared, or a link that was revoked, make the commit fail.             *)
AcceptCommits(u) ==
  /\ accepts[u].step = "commit"
  /\ accepts' = [accepts EXCEPT ![u] = NoAccept]
  /\ LET found == accepts[u].found
         raises == found = NoRole \/ Rank(link.role) > Rank(found)
         fails == link = NoLink \/ (raises /\ (found = NoRole) # (perms[u] = NoRole))
     IN  IF fails THEN UNCHANGED <<perms, link>>
         ELSE /\ perms' = IF raises THEN [perms EXCEPT ![u] = link.role] ELSE perms
              /\ link' = [link EXCEPT !.uses = accepts[u].uses + 1]
  /\ UNCHANGED <<project, change, changesMade, memberPageVars>>

-----------------------------------------------------------------------------
(* The editor page of a user.                                              *)

\* The role the page goes by.
ShownRole(u) ==
  CASE status[u] = "error" -> "gone"
    [] status[u] # "error" /\ known[u] = "unknown" -> "loading"
    [] OTHER -> known[u]

\* What the query had cached is there at once, unless it was dropped.
OpenEditor(u) ==
  /\ ~present[u] /\ present' = [present EXCEPT ![u] = TRUE]
  /\ fetching' = [fetching EXCEPT ![u] = TRUE]
  /\ known' \in {known, [known EXCEPT ![u] = "unknown"]}
  /\ status' = IF known'[u] = "unknown" THEN [status EXCEPT ![u] = "pending"] ELSE status
  /\ UNCHANGED memberServerVars

LeaveEditor(u) ==
  /\ present[u] /\ present' = [present EXCEPT ![u] = FALSE]
  /\ fetching' = [fetching EXCEPT ![u] = FALSE]
  /\ UNCHANGED <<memberServerVars, known, status>>

\* The interval; an error without data is forgotten while it is asked again.
Poll(u) ==
  /\ present[u] /\ ~fetching[u]
  /\ fetching' = [fetching EXCEPT ![u] = TRUE]
  /\ status' = IF known[u] = "unknown" THEN [status EXCEPT ![u] = "pending"] ELSE status
  /\ UNCHANGED <<memberServerVars, present, known>>

MembersArrive(u) ==
  /\ fetching[u] /\ perms[u] # NoRole
  /\ fetching' = [fetching EXCEPT ![u] = FALSE]
  /\ known' = [known EXCEPT ![u] = perms[u]] /\ status' = [status EXCEPT ![u] = "success"]
  /\ UNCHANGED <<memberServerVars, present>>

\* Mutant: 403 is tried again like every other failure.
AccessDeniedRetried(u) ==
  /\ fetching[u] /\ project /\ perms[u] = NoRole
  /\ UNCHANGED memberVars
(* list_members answers 403, and the page does not ask again before the    *)
(* next interval. Any other failure, 404 for a project that was deleted    *)
(* included, is tried again without end and changes nothing.               *)
AccessDenied(u) ==
  /\ fetching[u] /\ project /\ perms[u] = NoRole
  /\ fetching' = [fetching EXCEPT ![u] = FALSE]
  /\ status' = [status EXCEPT ![u] = "error"]
  /\ UNCHANGED <<memberServerVars, present, known>>

MembersNext ==
  \/ \E u \in Users :
       \/ \E op \in {"add", "update", "remove"}, role \in Roles \cup {NoRole} : ChangeBegins(u, op, role)
       \/ AcceptBegins(u) \/ AcceptCommits(u)
       \/ OpenEditor(u) \/ LeaveEditor(u) \/ Poll(u) \/ MembersArrive(u) \/ AccessDenied(u)
  \/ ChangeCommits \/ RevokeLink \/ LinkExpires \/ DeleteProject
  \/ \E role \in Roles : CreateLink(role)

\* The interval of a visible page, and its requests, which are answered.
MembersFairness ==
  \A u \in Users : WF_memberVars(Poll(u)) /\ WF_memberVars(MembersArrive(u) \/ AccessDenied(u))

MembersSpec == MembersInit /\ [][MembersNext]_memberVars /\ MembersFairness

-----------------------------------------------------------------------------
MembersTypeOK ==
  /\ project \in BOOLEAN /\ perms \in [Users -> Roles \cup {NoRole}]
  /\ link \in [role : Roles \cup {NoRole}, uses : 0..MaxUses, expired : BOOLEAN]
  /\ known \in [Users -> Roles \cup {"unknown"}] /\ status \in [Users -> {"pending", "success", "error"}]

(* A user who is removed, or never was a member, gets to know: the page    *)
(* shows that access is gone, whatever it had cached, unless it is closed, *)
(* the role comes back or the project is deleted. The code: retry of the   *)
(* query, and isError, which goes before what is cached.                   *)
RemovalIsNoticed ==
  \A u \in Users :
    (present[u] /\ perms[u] = NoRole)
      ~> (ShownRole(u) = "gone" \/ ~present[u] \/ perms[u] # NoRole \/ ~project)
=============================================================================
