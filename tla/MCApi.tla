------------------------------- MODULE MCApi --------------------------------
(***************************************************************************)
(* Two requests that reach a handler, and as many as it takes to fill the  *)
(* windows of the rate limit that are refused behind it.                   *)
(***************************************************************************)
EXTENDS Api

Ask(routes, token) == [route : routes, token : {token}]

MCAsks ==
  <<Ask({"publish"}, TRUE), Ask({"acquire", "GetDepth"}, TRUE),
    Ask({"settle"}, FALSE), Ask({"settle", "GetDepth"}, FALSE)>>
=============================================================================
