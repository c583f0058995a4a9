----------------------------- MODULE MCRoleChain -----------------------------
(* The chain of the tests (an SRE role, the organisation's, the customer's), *)
(* its ends, and the empty one; three addresses of which one lies outside    *)
(* the expected ranges.  Retries are as many as in the code.                 *)
EXTENDS Ssm

CONSTANTS sre, ip1, ip2, ip3

MCNames  == {sre, Org, Target}
MCChains == {<<>>, <<Target>>, <<Org, Target>>, <<sre, Org, Target>>}
MCIPs    == {ip1, ip2, ip3}
MCRanges == {ip1, ip2}
=============================================================================
