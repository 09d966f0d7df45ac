--------------------------- MODULE MC_ProviderUse ---------------------------
(* Two callers; evidence whose second item does not fit and whose third does, with a
   secret and a missing file, and whose head alone exceeds the limit. *)
EXTENDS ProviderUse

MCVersions == {0, 1, 9}
Of(n) == [size |-> n, secret |-> FALSE, gone |-> FALSE]
MCBundles == {[head |-> 1, items |-> <<Of(5), Of(4), Of(2)>>],
              [head |-> 1, items |-> <<[Of(6) EXCEPT !.secret = TRUE],
                                       [Of(3) EXCEPT !.gone = TRUE], Of(2)>>],
              [head |-> 9, items |-> <<Of(1)>>]}
MCActual == {1, 4}
==============================================================================
