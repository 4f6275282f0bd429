----------------------------- MODULE MCEditorPage -----------------------------
(* One instance of each part of the browser that has to make progress. The   *)
(* parts share no state, so that a behaviour plays in one of them. The PDF   *)
(* tab plays in two parts of its own, as compilations and the versions that  *)
(* are looked at meet in the object URLs only: two jobs whose answers        *)
(* overlap, without a version, and one job beside any use of the versions.   *)
EXTENDS FileBinding, CompilePreview, PDFViewer, Members

VARIABLE part

partVars == <<bindingVars, previewVars, viewerVars, memberVars>>

\* The parts a behaviour does not play in stand still in one initial state.
BindingRests == shared = [f \in Paths |-> [put |-> {}, cut |-> {}]]
ViewerRests == renderScale = 1
MembersRest == perms = [u \in Users |-> "viewer"]

MCInit ==
  /\ BindingInit /\ PreviewInit /\ ViewerInit /\ MembersInit
  /\ part \in {"binding", "preview", "versions", "viewer", "members"}
  /\ part = "binding" \/ BindingRests
  /\ part = "viewer" \/ ViewerRests
  /\ part = "members" \/ MembersRest

MCNext ==
  /\ UNCHANGED part
  /\ \/ part = "binding" /\ BindingNext /\ UNCHANGED <<previewVars, viewerVars, memberVars>>
     \/ /\ part = "preview" /\ PreviewNext /\ UNCHANGED <<historyUrl, doomed>>
        /\ UNCHANGED <<bindingVars, viewerVars, memberVars>>
     \/ /\ part = "versions" /\ PreviewNext /\ jobs' + creating' <= 1
        /\ UNCHANGED <<bindingVars, viewerVars, memberVars>>
     \/ part = "viewer" /\ ViewerNext /\ UNCHANGED <<bindingVars, previewVars, memberVars>>
     \/ part = "members" /\ MembersNext /\ UNCHANGED <<bindingVars, previewVars, viewerVars>>

MCSpec ==
  /\ MCInit /\ [][MCNext]_<<part, partVars>>
  /\ BindingFairness /\ PreviewFairness /\ MembersFairness

\* The number of pages of each PDF.
PageCounts == <<1, 2, 1>>

TypesOK == BindingTypeOK /\ PreviewTypeOK /\ ViewerTypeOK /\ MembersTypeOK
=============================================================================
