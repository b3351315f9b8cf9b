-------------------- MODULE MCOrganizationAdministration --------------------
EXTENDS OrganizationAdministration, TLC

MCSymmetry == Permutations(Processes)

MCKeys == {"k1"}
NoKeys == [k \in Keys |-> [state |-> "none", holder |-> 1, org |-> Symgov]]

\* 1 administers the platform; 2 administers acme, where 3 is a member.
Settled ==
    [account  |-> [u \in Users |-> "active"],
     org      |-> [o \in Orgs |-> "active"],
     member   |-> [u \in Users |-> [o \in Orgs |->
                    CASE o = Symgov -> IF u = 1 THEN "admin" ELSE "none"
                      [] OTHER -> IF u = 1 THEN "none" ELSE IF u = 2 THEN "admin" ELSE "user"]],
     departed |-> {},
     platform |-> {1},
     seats    |-> [o \in Orgs |-> IF o = Symgov THEN Unmetered ELSE 3],
     lapsed   |-> {},
     keys     |-> NoKeys,
     sessions |-> {}]
\* 2 and 3 both administer Symgov and acme.
Shared == [Settled EXCEPT !.member[2][Symgov] = "admin", !.member[3] = [o \in Orgs |-> "admin"],
                          !.platform = {1, 2}]
\* acme does not exist yet.
Founding == [Settled EXCEPT !.org["acme"] = "absent", !.seats["acme"] = Unmetered,
                            !.member[2]["acme"] = "none", !.member[3]["acme"] = "none"]
\* 3 has left acme.
Parted == [Settled EXCEPT !.member[3]["acme"] = "left", !.departed = {<<3, "acme">>},
                          !.seats["acme"] = 2]
MCInitial == {Settled, Shared}
\* 3 holds a key that is not claimed yet.
Issued == [Settled EXCEPT !.keys["k1"] = [state |-> "issued", holder |-> 3, org |-> "acme"]]
MCTurnover == {Settled, Founding, Parted, Issued}
=============================================================================
