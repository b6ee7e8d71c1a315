-------------------------------- MODULE Options --------------------------------
(***************************************************************************)
(* The flags of the command.  A flag that names a file is "" if it is not  *)
(* set, " " if it is blank, and a path otherwise; a duration is an integer.*)
(* The address and the port are left out: any of them is accepted here,    *)
(* and one that cannot be bound makes the listener fail.                   *)
(***************************************************************************)
EXTENDS Integers

\* strings.TrimSpace, of which only the comparison with "" is used.
TrimSpace(flag) == IF flag = " " THEN "" ELSE flag

ResyncOptionsValid(flags) == flags.resync > 0

ServingOptionsValid(flags) == TrimSpace(flags.cert) # "" /\ TrimSpace(flags.key) # ""

\* Faulty variant: nobody checks for the first file when the second is set.
OneOptionValid(flags) == TrimSpace(flags.config) # "" => TrimSpace(flags.jwks) # ""

\* Both files or none.
WorkloadIdentityOptionsValid(flags) ==
    \/ TrimSpace(flags.config) = "" /\ TrimSpace(flags.jwks) = ""
    \/ TrimSpace(flags.config) # "" /\ TrimSpace(flags.jwks) # ""

\* Options.Validate finds no error.
Validate(flags) ==
    /\ ResyncOptionsValid(flags)
    /\ ServingOptionsValid(flags)
    /\ WorkloadIdentityOptionsValid(flags)

\* What ApplyTo makes of the flags: only the first file is asked for.
Enabled(flags) == TrimSpace(flags.config) # ""
=============================================================================
