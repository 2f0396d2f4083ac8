------------------------------ MODULE MCStartup ------------------------------
(* A few addresses of each family and kind, alone and in lists.            *)
EXTENDS Startup

Addr(ip, family, kind) == [ip |-> ip, family |-> family, kind |-> kind]

MCAny4 == Addr("0.0.0.0", "v4", "unspecified")
MCAny6 == Addr("::", "v6", "unspecified")
Private4 == Addr("192.168.0.1", "v4", "private")
Public4 == Addr("198.51.100.1", "v4", "public")
Public6 == Addr("2001:db8::1", "v6", "public")
Other6 == Addr("2001:db8::2", "v6", "public")

MCAddresses == {MCAny4, MCAny6, Private4, Public4, Public6, Other6}

\* What hostname -I prints comes in one list.
MCLists ==
  {<<>>, <<MCAny4>>, <<Private4>>, <<Public4>>, <<Public6>>, <<Garbage>>,
   <<Private4, Public4, Public6>>, <<Private4, Private4>>, <<Public4, Private4>>,
   <<Public6, Garbage>>}

MCEnvAddrs == {None, MCAny6, Public4, Other6}
=============================================================================
