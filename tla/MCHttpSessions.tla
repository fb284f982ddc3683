--------------------------- MODULE MCHttpSessions ---------------------------
(* Three requests and one place: two initializes race for it, or a session *)
(* serves two requests (a stream and a call, a call and a delete) while it *)
(* ages, is swept or is shut down, or a second session takes its place.    *)
EXTENDS HttpSessions
=============================================================================
