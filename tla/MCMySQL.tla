------------------------------- MODULE MCMySQL -------------------------------
(* Model-checking instance of MySQLConnection and of QueryService. *)
EXTENDS MySQLConnection
=============================================================================
