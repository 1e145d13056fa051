------------------------------ MODULE MCWebAuth ------------------------------
(* Model-checking instance of WebAuth: two tabs of one browser.            *)
EXTENDS WebAuth

=============================================================================
