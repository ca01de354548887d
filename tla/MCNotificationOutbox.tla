------------------------ MODULE MCNotificationOutbox ------------------------
(* Small instances of NotificationOutbox for TLC. *)
EXTENDS NotificationOutbox

CONSTANTS w1, w2

\* A booking's text message and email, a row of no known type, and another booking's
\* email and text message.
MCTypes == <<"sms", "email", "other", "email", "sms">>
MCTypeOf == [r \in Rows |-> MCTypes[r]]
=============================================================================
