\* Two viewers of one friend.
CONSTANTS
    Viewers = {v, w}
    Friends = {f}
    Lines = {menu, game}
    Nowhere = Nowhere
    Local = Local
    MaxMisses = 1
    MaxVisits = 3
SPECIFICATION FairNotifySpec
INVARIANTS
    NotifyTypeOK
    
 
