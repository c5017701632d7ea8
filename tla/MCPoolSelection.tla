--------------------------- MODULE MCPoolSelection ---------------------------
(***************************************************************************)
(* Instances of PoolSelection: pools that differ in datacenter, trait,     *)
(* devices or size only, and jobs of one or two groups.                    *)
(***************************************************************************)
EXTENDS PoolSelection

Attrs(dc, traits, devices) == [dc |-> dc, traits |-> traits, devices |-> devices]
Pool(a, n) == [attrs |-> a, cpu |-> n, mem |-> n]

Base == Attrs("dc1", {}, FALSE)
Gpu == Attrs("dc1", {}, TRUE)
Arm == Attrs("dc1", {"arm"}, FALSE)
Far == Attrs("dc2", {}, FALSE)

MCUniverse == {Pool(Base, 1), Pool(Base, 2), Pool(Gpu, 1), Pool(Gpu, 2),
               Pool(Arm, 2), Pool(Far, 2)}

Group(traits, device, n) == [traits |-> traits, device |-> device,
                             cpu |-> n, mem |-> n]

MCGroups == {Group({}, d, n) : d \in BOOLEAN, n \in 1..2}
              \cup {Group({"arm"}, FALSE, 1)}

Job(T, G, S) == [dcs |-> {"dc1"}, traits |-> T, groups |-> G, short |-> S]

\* Jobs with one or two groups of which some are short.
MCJobs == {j \in {Job(T, G, S) : T \in {{}, {"arm"}},
                                 G \in SUBSET MCGroups, S \in SUBSET MCGroups} :
             /\ Cardinality(j.groups) \in 1..2
             /\ j.short \subseteq j.groups}
=============================================================================
