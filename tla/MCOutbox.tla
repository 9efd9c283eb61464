------------------------------ MODULE MCOutbox ------------------------------
(* Instance of Outbox: two events, the second one of the kit, which has a   *)
(* target of its own, and a cap of one message or of both.                  *)
EXTENDS Outbox

MCKitEvents == {2}

\* Every target takes what it is offered in the end; or the targets of the
\* newer message do not, nor the first target of the older one.
MCRefusals == {{}, {<<2, "kit">>, <<2, "fallback">>, <<1, "primary">>}}

\* The targets of the older message are dead, the kit's is not.
MCDeadTargets == {{1, 2} \X Editable}
=============================================================================
