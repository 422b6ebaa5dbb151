---------------------------- MODULE TaxonomyEdit ----------------------------
(***************************************************************************)
(* The versions of the taxonomy and the human edits of                     *)
(* modules/review/service.py.  An edit never touches the version it starts *)
(* from: it copies the clusters and the memberships into a new one.        *)
(*                                                                         *)
(* A version is a record: the batch whose signals it sorts, the status of  *)
(* each of its clusters, and the membership rows, pairs of a signal and a  *)
(* cluster (or None).  A copied cluster keeps its name here, where the     *)
(* code gives it a new id; a new cluster takes a name that is free.        *)
(***************************************************************************)
EXTENDS Naturals, FiniteSets

CONSTANTS
  Clusters,    \* names of clusters
  None

ASSUME ClusterAssumption == None \notin Clusters

ClusterStatus == {"active", "removed"}

ClustersOf(version) == DOMAIN version.status

Members(version, cluster) == {row[1] : row \in {r \in version.rows : r[2] = cluster}}

Several(selected) == \A one \in selected : selected # {one}

MergeUnmoved(version, selected, new) ==    \* mutant: the memberships of the merged are not moved
  LET kept == ClustersOf(version) \ selected
  IN  [version EXCEPT
        !.status = [c \in kept \cup {new} |-> IF c = new THEN "active" ELSE version.status[c]]]

(* apply_taxonomy_revision: one cluster in the place of at least two.  It  *)
(* is active even if all of them had been removed.                         *)
Merge(version, selected, new) ==
  LET kept == ClustersOf(version) \ selected
  IN  [version EXCEPT
        !.status = [c \in kept \cup {new} |-> IF c = new THEN "active" ELSE version.status[c]],
        !.rows = {<< row[1], IF row[2] \in selected THEN new ELSE row[2] >> : row \in @}]

CanMerge(version, selected, new) ==
  /\ selected # {} /\ Several(selected) /\ selected \subseteq ClustersOf(version)
  /\ new \in Clusters \ (ClustersOf(version) \ selected)

(* The edits of apply_taxonomy_edit: rename, remove, restore and split.    *)
(* The name that is shown of a cluster is no part of a version here.       *)
Rename(version, selected) == version

Withdrawn(version, selected) ==    \* mutant: a status of its own, that no reader knows
  [version EXCEPT !.status = [c \in DOMAIN @ |-> IF c \in selected THEN "withdrawn" ELSE @[c]]]

Remove(version, selected) ==
  [version EXCEPT !.status = [c \in DOMAIN @ |-> IF c \in selected THEN "removed" ELSE @[c]]]

Restore(version, selected) ==
  [version EXCEPT !.status = [c \in DOMAIN @ |-> IF c \in selected THEN "active" ELSE @[c]]]

CanRestore(version, selected) == \A c \in selected : version.status[c] = "removed"

(* The groups, one set of signals for each new cluster, do not overlap and *)
(* are exactly the members of the cluster that is split.                   *)
CanSplit(version, cluster, group) ==
  LET new == DOMAIN group
  IN  /\ new # {} /\ Several(new) /\ new \subseteq Clusters \ (ClustersOf(version) \ {cluster})
      /\ \A c \in new : group[c] # {}
      /\ \A c, d \in new : c # d => group[c] \cap group[d] = {}
      /\ UNION {group[c] : c \in new} = Members(version, cluster)

Split(version, cluster, group) ==
  LET kept == ClustersOf(version) \ {cluster}
  IN  [version EXCEPT
        !.status = [c \in kept \cup DOMAIN group |->
                      IF c \in DOMAIN group THEN "active" ELSE version.status[c]],
        !.rows = {row \in @ : row[2] # cluster}
                   \cup UNION {group[c] \X {c} : c \in DOMAIN group}]
=============================================================================
