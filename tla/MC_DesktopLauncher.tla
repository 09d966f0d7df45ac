-------------------------- MODULE MC_DesktopLauncher --------------------------
(* Small instances of DesktopLauncher for TLC. *)
EXTENDS DesktopLauncher

CONSTANTS d1, d2, d3

\* Three launches one after the other, and two at any pace.
MCPaces == {[clicks |-> Desktops, overlap |-> FALSE, slow |-> FALSE],
            [clicks |-> {d1, d2}, overlap |-> TRUE, slow |-> TRUE]}
=============================================================================
