-------------------------- MODULE MCByteConnection --------------------------
EXTENDS ByteConnection

Get  == <<<<"G">>, <<"k">>>>
Set  == <<<<"S">>, <<"k">>, <<"LF">>>>
Ping == <<<<"P">>>>
Unknown == <<<<"k">>>>
Del  == <<<<"d">>, <<"k">>>>
Ttl  == <<<<"T">>, <<"k">>>>
Exists  == <<<<"E">>, <<"*">>>>
LongKey == <<<<"G">>, <<"k", "k">>>>
Expire  == <<<<"X">>, <<"k">>, <<"9">>>>
BadExpire == <<<<"X">>, <<"k">>, <<"k">>>>
Nothing == <<>>

MCScripts ==
  { <<Get, Ping, Get, Get>>, <<Ping, Unknown, Set, Del>>, <<Set, Ttl, Get>>,
    <<Exists, LongKey, Expire>>, <<Nothing, Get, BadExpire>> }
MCStoredValue == { <<"CR", "LF">>, <<>> }
=============================================================================
