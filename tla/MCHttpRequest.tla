---------------------------- MODULE MCHttpRequest ----------------------------
(* HttpRequest with a limit of two bytes and a daemon that sends up to four. *)
EXTENDS HttpRequest
=============================================================================
