------------------------------ MODULE MCRedaction ------------------------------
(* Small instances of Redaction.                                                *)
EXTENDS Redaction

Kind(source, tier, conf, generic, dlp) ==
    [source |-> source, tier |-> tier, conf |-> conf, generic |-> generic, dlp |-> dlp]

\* Secrets of a rule, sure and not, and of the catch-all; an account number, sure of
\* itself; a name, sure and not.
MCCatalogue == {Kind("secrets", SECRET, 2, FALSE, FALSE), Kind("secrets", SECRET, 1, FALSE, FALSE),
                Kind("secrets", SECRET, 2, TRUE, FALSE), Kind("pii", 3, 2, FALSE, FALSE),
                Kind("pii", 2, 2, FALSE, TRUE), Kind("pii", 2, 1, FALSE, TRUE)}

\* The LLM takes something for a secret, for a name, or for nothing.
MCAnswers == {Kind("llm", SECRET, 2, FALSE, FALSE), Kind("llm", 2, 1, FALSE, FALSE),
              Kind("llm", BENIGN, 2, FALSE, FALSE)}
=============================================================================
