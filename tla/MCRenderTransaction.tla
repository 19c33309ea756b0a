------------------------ MODULE MCRenderTransaction ------------------------
EXTENDS RenderTransaction

\* $0001, the bootstrap's code, its vector, a SID register, a colour cell.
MCAddresses == 1 .. 5
MCAddressOrder == <<1, 2, 3, 4, 5>>
MCBootstrap == [a \in {2, 3} |-> 1]
=============================================================================
