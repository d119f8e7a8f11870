----------------------------- MODULE MCEticket -----------------------------
EXTENDS Eticket, TLC

\* Holders are interchangeable: no action and no property names one.
Holders == Permutations(Address)

\* Schedules have no default URL: it is shown where the special content is not, and no
\* function decides anything by it.
NoDefaultContent == \A ps \in Id : schedules[ps].defaultUrl = NoUrl
=============================================================================
