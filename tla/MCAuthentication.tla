-------------------------- MODULE MCAuthentication --------------------------
EXTENDS Authentication, TLC

CONSTANTS alice, bob
MCUsers == {alice, bob}
MCSeveral == {alice}
MCSymmetry == Permutations(Processes)

NoSession == [status |-> "none", user |-> None, purpose |-> "none", step_up |-> None,
              challenge |-> None]
NoChallenge == [status |-> "none", user |-> None, attempts |-> 0, issued_by |-> None]
SignedOff ==
    [accounts   |-> [u \in Users |-> [pin |-> 1, must_change |-> FALSE, active |-> TRUE]],
     buckets    |-> [b \in Scopes |-> NoBucket],
     challenges |-> [c \in Challenges |-> NoChallenge],
     sessions   |-> [s \in Sessions |-> NoSession]]
\* Two wrong PINs under different accounts: one more blocks the address.
Tried == [SignedOff EXCEPT !.buckets = [b \in Scopes |->
             [NoBucket EXCEPT !.failures = IF b = Address THEN 2 ELSE 1]]]
SignedOn == SessionAdded(SignedOff, alice, "application", None)
\* Signed in, and about to move to another organization.
Switching == ChallengeAdded(SignedOn, alice, 1)
\* The PIN was reset; the user has signed in with it.
Forced == SessionAdded([SignedOff EXCEPT !.accounts[alice].must_change = TRUE],
                       alice, "credential_change", None)
MCInitial == {SignedOff, Tried, SignedOn, Switching, Forced}
=============================================================================
