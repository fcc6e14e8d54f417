-------------------------- MODULE PipelineVersions --------------------------
(***************************************************************************)
(* The versions of one data pipeline as others see them: what is committed *)
(* by SaveDraftVersion and PublishVersion.  PipelinePublish.tla has the    *)
(* statements and locks of PublishVersion, and is shown to implement this. *)
(***************************************************************************)

CONSTANTS Version,    \* rows of data_pipeline_versions of the pipeline
          NoVersion   \* NULL

ASSUME VersionAssumption == NoVersion \notin Version

VARIABLES vstatus,    \* [Version -> VersionStatus], the status column
          current     \* published_version_id of the pipeline

versionVars == <<vstatus, current>>

VersionStatus == {"absent", "draft", "published", "archived"}

VersionTypeOK == /\ vstatus \in [Version -> VersionStatus]
                 /\ current \in Version \cup {NoVersion}

VersionInit == /\ vstatus = [v \in Version |-> "absent"]
               /\ current = NoVersion

SaveDraft(v) == /\ vstatus[v] = "absent"
                /\ vstatus' = [vstatus EXCEPT ![v] = "draft"]
                /\ UNCHANGED current

(* Only a version never archived is published.  Which of the others are    *)
(* archived with it is left open: a version published at the same time by  *)
(* another request is not.                                                 *)
Publish(v) ==
    /\ vstatus[v] \in {"draft", "published"}
    /\ \E A \in SUBSET {x \in Version \ {v} : vstatus[x] = "published"} :
          vstatus' = [x \in Version |-> IF x \in A THEN "archived"
                                        ELSE IF x = v THEN "published" ELSE vstatus[x]]
    /\ current' = v

VersionNext == \E v \in Version : SaveDraft(v) \/ Publish(v)

VersionSpec == VersionInit /\ [][VersionNext]_versionVars
=============================================================================
