--------------------------- MODULE MCControllers ---------------------------
(***************************************************************************)
(* Small instances of Controllers. Member "a" asks for a secret, member     *)
(* "b" takes a key.                                                        *)
(***************************************************************************)
EXTENDS Controllers

CONSTANTS a, b, c, d

MCMembers == {a, b}

\* The challenges of member a; member b uses a key.
Asks(secrets) == [m \in MCMembers |-> IF m = a THEN secrets ELSE <<>>]

PasswordThenForm == Asks(<<"password", "form">>)

\* The links may drop while a member is dialled and while it is served.
DialsAndServes == [m \in MCMembers |-> {"dialing", "serving"}]

=============================================================================
