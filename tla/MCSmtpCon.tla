----------------------------- MODULE MCSmtpCon -----------------------------
(* SmtpCon on a small instance: two slots, replies of two bytes.           *)
EXTENDS SmtpCon

=============================================================================
