SPECIFICATION FairSpec
CONSTANTS
 own=own q1=q1 q2=q2 s1=s1 s2=s2 s3=s3 s4=s4 s5=s5
 None=None
 Callers={own,q1,q2}
 Own=own TipQueries=2 Asks <- TwoClients
 Sockets={s1,s2,s3,s4}
 MayStop=TRUE
 MaxMishaps=1
INVARIANTS OgmiosTypeOK FlagIsCorrected NoSocketForgotten
PROPERTIES OverlapIsHarmless CallsEnd WorksInTheEnd
